---- MODULE Spec2Model ----
(***************************************************************************)
(* State-machine model of telegram-vacation-bot.py: the SQLite tables the  *)
(* handlers read and write, the per-chat user_data, the inline buttons the *)
(* bot has handed out, and one action per update handler.                  *)
(*                                                                         *)
(* Dates are day numbers 1..MaxDate; a calendar year is DaysInYear         *)
(* consecutive day numbers.  Telegram identities are 1..NumIds, NULL is 0. *)
(***************************************************************************)
EXTENDS Integers, FiniteSets, Sequences, TLC

\* ------------------------------------------------------------ bounds
NumIds     == 2   \* Telegram identities that talk to the bot
MaxDate    == 3   \* day numbers 1..MaxDate
DaysInYear == 2   \* day numbers per calendar year
MaxVac     == 2   \* rows ever inserted into vacations
MaxUid     == 5   \* highest users.id the run hands out
MaxTasks   == 2   \* submissions between their validation and their INSERT
MaxInvited == 7   \* highest users.id an invitation (/setrole, add user) hands out
MaxFid     == 5   \* highest forbidden_dates.id the run hands out

\* ------------------------------------------------------------ constants
NULL == 0
ADMIN_ROLES == {"CEO", "OWNER", "TIMLID", "TECH"}
DEFAULT_OVERLAP == "allow_all"
None == "<None>"            \* Python's None where a str is expected
DefaultTeamId == 1          \* id of the row 'Default Team'
NoRange == <<NULL, NULL>>   \* user_data.get('forbid_range', (None, None)), key missing
ALL_ROLES == ADMIN_ROLES \cup {"BAER", "DESIGNER", "FARMER", "MANAGER", "BUHGALTER"}
\* the Telegram usernames in use or free to take
Usernames == {"user" \o ToString(n) : n \in 1..(NumIds + 1)}

TgIds == 1..NumIds
Dates == 1..MaxDate
Texts == {"ok", "7"}        \* text messages that pass filters.TEXT & ~filters.COMMAND

VARIABLES
    teams,          \* table teams: set of [id, name]
    users,          \* table users: set of [id, tg, username, role, team]
    nextUid,        \* AUTOINCREMENT of users.id
    vacations,      \* table vacations: set of [id, team, user, start, end, days, status, comment]
    nextVid,        \* AUTOINCREMENT of vacations.id
    admin_actions,  \* table admin_actions: set of [admin, vac, action]
    settings,       \* table settings: set of [key, value]
    forbidden_dates,\* table forbidden_dates: set of [id, team, date, note]
    user_data,      \* context.user_data per identity: [admin_wizard, reg_team_id],
                    \* with reg_state, the identity's state in reg_conv
    buttons,        \* approve/reject buttons delivered: set of <<tg, vacation id>>
    tasks,          \* submissions validated and not yet inserted
    last,           \* what the last handler did: [op, by, result, reply, sent]
    unreachable,    \* identities whose chat makes bot.send_message raise
    handle,         \* the Telegram username each identity has now (tg_user.username)
    nextFid,        \* AUTOINCREMENT of forbidden_dates.id
    apply_state,    \* each identity's state in apply_conv
    superseded      \* history: per admin, the recorded action the latest press replaced

vars == <<teams, users, nextUid, vacations, nextVid, admin_actions, settings,
          forbidden_dates, user_data, buttons, tasks, last, unreachable, handle,
          nextFid, apply_state, superseded>>

\* ------------------------------------------------------------ helpers
Reply(kind, a, b) == [kind |-> kind, a |-> a, b |-> b]
NoReply == Reply("none", 0, 0)

Handle(tg) == handle[tg]                  \* tg_user.username of an identity

MinOf(S) == CHOOSE x \in S : \A y \in S : x <= y

IntOf(s) == CHOOSE n \in 0..99 : ToString(n) = s     \* int(text) on a decimal string
IsInt(s) == \E n \in 0..99 : ToString(n) = s

YearOf(d) == (d - 1) \div DaysInYear + 1

RECURSIVE SumDays(_)
SumDays(rows) ==
    IF rows = {} THEN 0
    ELSE LET r == CHOOSE x \in rows : TRUE
         IN  r.days + SumDays(rows \ {r})

\* ------------------------------------------------------------ settings
SettingKey(short_key, team_id) == short_key \o ":" \o ToString(team_id)

get_setting(key) ==
    IF \E r \in settings : r.key = key
    THEN (CHOOSE r \in settings : r.key = key).value
    ELSE None

set_setting(key, value) ==
    {r \in settings : r.key # key} \cup {[key |-> key, value |-> value]}

get_team_setting(team_id, short_key, default) ==
    LET val == get_setting(SettingKey(short_key, team_id))
    IN  IF val # None THEN val ELSE (IF default # None THEN default ELSE "")

\* a write that leaves the team out of the key
set_team_setting_any_team(team_id, short_key, value) ==
    {r \in settings : \A t \in 1..9 : r.key # SettingKey(short_key, t)}
        \cup {[key |-> SettingKey(short_key, t), value |-> value] : t \in {x.id : x \in teams}}

set_team_setting(team_id, short_key, value) ==
    set_setting(SettingKey(short_key, team_id), value)

\* ------------------------------------------------------------ users
is_admin_role(role) == role \in ADMIN_ROLES

HasUser(tg) == \E u \in users : u.tg = tg

get_user_by_tg_id(tg) == CHOOSE u \in users : u.tg = tg

\* get_user_by_username without a team: ORDER BY id DESC LIMIT 1
HasUsername(username) == username # "" /\ \E u \in users : u.username = username

get_user_by_username(username) ==
    CHOOSE u \in users : u.username = username
                         /\ \A w \in users : w.username = username => w.id <= u.id

\* ensure_user_record: the row of the identity after the call, and the table
NeedsNewRow(tg) == ~HasUser(tg) /\ ~HasUsername(Handle(tg))

ensure_user_record(tg) ==
    IF HasUser(tg)
    THEN LET existing == get_user_by_tg_id(tg)
             updated  == [existing EXCEPT !.username = Handle(tg)]
         IN  [row |-> updated,
              users |-> (users \ {existing}) \cup {updated},
              nextUid |-> nextUid]
    ELSE IF HasUsername(Handle(tg))
    THEN LET byname == get_user_by_username(Handle(tg))
             bound  == [byname EXCEPT !.tg = tg]
         IN  [row |-> bound,
              users |-> (users \ {byname}) \cup {bound},
              nextUid |-> nextUid]
    ELSE LET new == [id |-> nextUid, tg |-> tg, username |-> Handle(tg),
                     role |-> "MANAGER", team |-> DefaultTeamId]
         IN  [row |-> new, users |-> users \cup {new}, nextUid |-> nextUid + 1]

\* ------------------------------------------------------------ business rules
dates_overlap(a_start, a_end, b_start, b_end) ==
    ~(a_end < b_start \/ b_end < a_start)

\* a lookup that has lost its WHERE team_id=?
is_range_forbidden_any_team(team_id, start, end) ==
    LET forbidden == {r.date : r \in forbidden_dates}
        hit == {d \in start..end : d \in forbidden}
    IN  IF hit = {} THEN 0 ELSE MinOf(hit)

\* first forbidden day of [start,end] for the team, 0 for None
is_range_forbidden(team_id, start, end) ==
    LET forbidden == {r.date : r \in {x \in forbidden_dates : x.team = team_id}}
        hit == {d \in start..end : d \in forbidden}
    IN  IF hit = {} THEN 0 ELSE MinOf(hit)

\* rows of the overlap query: vacations JOIN users, team's pending and approved
OverlapRows(team_id) ==
    {v \in vacations : /\ v.team = team_id
                       /\ v.status \in {"pending", "approved"}
                       /\ \E u \in users : u.id = v.user}

RoleOfUser(uid) == (CHOOSE u \in users : u.id = uid).role

\* a policy check without the early return of allow_all: every intersecting
\* row rejects unless the policy is deny_same_role
check_overlap_policy_no_allow_all(team_id, start, end, role) ==
    LET policy == get_team_setting(team_id, "overlap_policy", DEFAULT_OVERLAP)
        hits == {v \in OverlapRows(team_id) :
                    /\ dates_overlap(start, end, v.start, v.end)
                    /\ \/ policy # "deny_same_role"
                       \/ RoleOfUser(v.user) = role}
    IN  IF hits = {} THEN 0 ELSE MinOf({v.id : v \in hits})

\* a policy check that decides on the first intersecting row alone
check_overlap_policy_first_row(team_id, start, end, role) ==
    LET policy == get_team_setting(team_id, "overlap_policy", DEFAULT_OVERLAP)
        inter == {v \in OverlapRows(team_id) : dates_overlap(start, end, v.start, v.end)}
        first == CHOOSE v \in inter : v.id = MinOf({w.id : w \in inter})
    IN  IF policy = "allow_all" \/ inter = {} THEN 0
        ELSE IF policy = "deny_all" \/ RoleOfUser(first.user) = role THEN first.id
        ELSE 0

\* id of the first row (in rowid order) the policy rejects on, 0 for None
check_overlap_policy(team_id, start, end, role) ==
    LET policy == get_team_setting(team_id, "overlap_policy", DEFAULT_OVERLAP)
        hits == {v \in OverlapRows(team_id) :
                    /\ dates_overlap(start, end, v.start, v.end)
                    /\ \/ policy = "deny_all"
                       \/ policy = "deny_same_role" /\ RoleOfUser(v.user) = role}
    IN  IF policy = "allow_all" THEN 0
        ELSE IF hits = {} THEN 0
        ELSE MinOf({v.id : v \in hits})

\* a sum over the approved requests of the user, whatever year they start in
user_year_used_days_every_year(user_id, year) ==
    SumDays({v \in vacations : v.user = user_id /\ v.status = "approved"})

\* a yearly sum that takes the requests of every status
user_year_used_days_any_status(user_id, year) ==
    SumDays({v \in vacations : v.user = user_id /\ YearOf(v.start) = year})

user_year_used_days(user_id, year) ==
    SumDays({v \in vacations : /\ v.user = user_id
                               /\ v.status = "approved"
                               /\ YearOf(v.start) = year})

\* a cap that also rejects a request of exactly the cap
ExceedsCapInclusive(days, max_single) == days >= max_single

\* process_apply_submission: 'if days > max_single'
ExceedsCap(days, max_single) == days > max_single

\* process_apply_submission: 'if used + days > max_year'
ExceedsQuota(used, days, max_year) == used + days > max_year

\* a pipeline that asks the overlap policy before the forbidden dates and the cap
RulePipelineOverlapFirst(user, start, end) ==
    LET days == (end - start) + 1
        forbid == is_range_forbidden(user.team, start, end)
        max_single == IntOf(get_team_setting(user.team, "max_single_days", "14"))
        overlap == check_overlap_policy(user.team, start, end, user.role)
        used == user_year_used_days(user.id, YearOf(start))
        max_year == IntOf(get_team_setting(user.team, "max_year_days", "28"))
    IN  IF overlap # 0 THEN Reply("overlap", overlap, 0)
        ELSE IF forbid # 0 THEN Reply("forbidden", forbid, 0)
        ELSE IF ExceedsCap(days, max_single) THEN Reply("cap", max_single, 0)
        ELSE IF ExceedsQuota(used, days, max_year) THEN Reply("quota", used, max_year)
        ELSE Reply("accepted", days, 0)

\* process_apply_submission, the four rules in their order
RulePipeline(user, start, end) ==
    LET days == (end - start) + 1
        forbid == is_range_forbidden(user.team, start, end)
        max_single == IntOf(get_team_setting(user.team, "max_single_days", "14"))
        overlap == check_overlap_policy(user.team, start, end, user.role)
        used == user_year_used_days(user.id, YearOf(start))
        max_year == IntOf(get_team_setting(user.team, "max_year_days", "28"))
    IN  IF forbid # 0 THEN Reply("forbidden", forbid, 0)
        ELSE IF ExceedsCap(days, max_single) THEN Reply("cap", max_single, 0)
        ELSE IF overlap # 0 THEN Reply("overlap", overlap, 0)
        ELSE IF ExceedsQuota(used, days, max_year) THEN Reply("quota", used, max_year)
        ELSE Reply("accepted", days, 0)

\* a pipeline that starts at the forbidden-date rule
SubmissionRulesNoEndCheck(user, start, end) == RulePipeline(user, start, end)

\* process_apply_submission up to its INSERT: the message the requester gets
SubmissionRules(user, start, end) ==
    IF end < start THEN Reply("end_before_start", 0, 0)
    ELSE RulePipeline(user, start, end)

\* an INSERT that stores the difference of the dates as the day count
NewVacationExclusiveDays(user, start, end, comment) ==
    [id |-> nextVid, team |-> user.team, user |-> user.id,
     start |-> start, end |-> end, days |-> end - start,
     status |-> "pending", comment |-> comment]

\* the INSERT of process_apply_submission
NewVacation(user, start, end, comment) ==
    [id |-> nextVid, team |-> user.team, user |-> user.id,
     start |-> start, end |-> end, days |-> (end - start) + 1,
     status |-> "pending", comment |-> comment]

\* a recipient query that has lost its WHERE team_id=?
AdminRecipientsAnyTeam(usersNow, team_id) ==
    {u.tg : u \in {x \in usersNow : /\ x.role \in {"CEO", "OWNER", "TIMLID", "TECH"}
                                    /\ x.tg # NULL}}

\* notify_admins_and_log: the team's admins with a resolved tg_id, read from usersNow
AdminRecipients(usersNow, team_id) ==
    {u.tg : u \in {x \in usersNow : /\ x.team = team_id
                                    /\ x.role \in {"CEO", "OWNER", "TIMLID", "TECH"}
                                    /\ x.tg # NULL}}

NewRequestNotes(usersNow, team_id, vac_id) ==
    {[to |-> tg, kind |-> "new_request", vac |-> vac_id, status |-> "pending", shown |-> ""] :
        tg \in AdminRecipients(usersNow, team_id)}

\* ------------------------------------------------------------ admin decision
NoRow == [admin |-> NULL, vac |-> 0, action |-> "none"]

HasAction(admin_tg) == \E r \in admin_actions : r.admin = admin_tg

ActionOf(admin_tg) == CHOOSE r \in admin_actions : r.admin = admin_tg

\* INSERT OR REPLACE INTO admin_actions, PRIMARY KEY admin_tg_id
InsertOnlyAction(admin_tg, vac_id, action) ==
    admin_actions \cup {[admin |-> admin_tg, vac |-> vac_id, action |-> action]}

InsertOrReplaceAction(admin_tg, vac_id, action) ==
    {r \in admin_actions : r.admin # admin_tg}
        \cup {[admin |-> admin_tg, vac |-> vac_id, action |-> action]}

\* SELECT ... FROM vacations v JOIN users u ON v.user_id=u.id WHERE v.id=?
RequestFound(vac_id) ==
    \E v \in vacations : v.id = vac_id /\ \E u \in users : u.id = v.user

RequestRow(vac_id) == CHOOSE v \in vacations : v.id = vac_id

RequesterTg(vac_id) == (CHOOSE u \in users : u.id = RequestRow(vac_id).user).tg

\* a decision that approves whatever was recorded
StatusForAlwaysApproved(action) == "approved"

StatusFor(action) == IF action = "approve" THEN "approved" ELSE "rejected"

\* an UPDATE that has lost its WHERE id=?
UpdateStatusNoWhere(vac_id, status, comment) ==
    {[v EXCEPT !.status = status, !.comment = comment] : v \in vacations}

\* UPDATE vacations SET status=?, admin_comment=? WHERE id=?
UpdateStatus(vac_id, status, comment) ==
    {IF v.id = vac_id THEN [v EXCEPT !.status = status, !.comment = comment] ELSE v :
        v \in vacations}

DecisionNote(vac_id, status, shown) ==
    [to |-> RequesterTg(vac_id), kind |-> "decision", vac |-> vac_id,
     status |-> status, shown |-> shown]

\* comment or "—" in the requester's message
Shown(comment) == IF comment = "" THEN "-" ELSE comment

\* a missing request reported as a decision taken
RequestNotFoundAsDecided(action) ==
    [ok |-> TRUE, status |-> StatusFor(action),
     vacations |-> vacations, admin_actions |-> admin_actions, sent |-> {}]

\* finalize_admin_decision, 'if not r': return False, "Заявка не найдена."
RequestNotFound(action) ==
    [ok |-> FALSE, status |-> "not_found",
     vacations |-> vacations, admin_actions |-> admin_actions, sent |-> {}]

\* finalize_admin_decision: (ok, status) and the store after it
finalize_admin_decision(admin_tg, vac_id, action, comment) ==
    IF ~RequestFound(vac_id)
    THEN RequestNotFound(action)
    ELSE LET status == StatusFor(action)
         IN  [ok |-> TRUE, status |-> status,
              vacations |-> UpdateStatus(vac_id, status, comment),
              admin_actions |-> {r \in admin_actions : r.admin # admin_tg},
              sent |-> {DecisionNote(vac_id, status, Shown(comment))}]

\* admin_text_handler, step 1: the text is the comment of the admin's recorded action
CommentOfText(text) == IF text = "/skip" THEN "" ELSE text

TextDecision(admin_tg, text) ==
    LET row == ActionOf(admin_tg)
        f == finalize_admin_decision(admin_tg, row.vac, row.action, CommentOfText(text))
    IN  [reply |-> IF f.ok THEN Reply("decided", row.vac, 0) ELSE NoReply,
         result |-> f.status,
         vacations |-> f.vacations, admin_actions |-> f.admin_actions, sent |-> f.sent]

\* a shortcut that answers nothing without a recorded action
SilentNoAction == Reply("none", 0, 0)

\* admin_skip_comment_cb: "Нет активного действия для пропуска комментария."
NoActiveActionReply == Reply("no_active_action", 0, 0)

\* a skip-comment decision that runs the quota rule again: an approval that
\* would take the owner's approved days of the year over the quota rejects
SkipDecisionQuotaChecked(admin_tg) ==
    LET row == ActionOf(admin_tg)
        v == RequestRow(row.vac)
        others == SumDays({w \in vacations : /\ w.user = v.user /\ w.id # v.id
                                              /\ w.status = "approved"
                                              /\ YearOf(w.start) = YearOf(v.start)})
        max_year == IntOf(get_team_setting(v.team, "max_year_days", "28"))
        status == IF row.action = "approve" /\ ~ExceedsQuota(others, v.days, max_year)
                  THEN "approved" ELSE "rejected"
    IN  IF ~RequestFound(row.vac)
        THEN [reply |-> Reply("not_found", row.vac, 0), result |-> "not_found",
              vacations |-> vacations,
              admin_actions |-> {r \in admin_actions : r.admin # admin_tg},
              sent |-> {}]
        ELSE [reply |-> Reply("decided", row.vac, 0), result |-> status,
              vacations |-> UpdateStatus(row.vac, status, ""),
              admin_actions |-> {r \in admin_actions : r.admin # admin_tg},
              sent |-> {DecisionNote(row.vac, status, "-")}]

\* admin_skip_comment_cb once the admin's recorded action is found
SkipDecision(admin_tg) ==
    LET row == ActionOf(admin_tg)
        status == StatusFor(row.action)
    IN  IF ~RequestFound(row.vac)
        THEN [reply |-> Reply("not_found", row.vac, 0), result |-> "not_found",
              vacations |-> vacations,
              admin_actions |-> {r \in admin_actions : r.admin # admin_tg},
              sent |-> {}]
        ELSE [reply |-> Reply("decided", row.vac, 0), result |-> status,
              vacations |-> UpdateStatus(row.vac, status, ""),
              admin_actions |-> {r \in admin_actions : r.admin # admin_tg},
              sent |-> {DecisionNote(row.vac, status, "-")}]

\* ------------------------------------------------------------ initial states
UserRow(id, tg, username, role, team) ==
    [id |-> id, tg |-> tg, username |-> username, role |-> role, team |-> team]

\* init_db: the PRESET_ADMINS placeholders of the Default Team
PresetRows ==
    {UserRow(1, NULL, "1", "TECH", DefaultTeamId),
     UserRow(2, NULL, "2", "TIMLID", DefaultTeamId),
     UserRow(3, NULL, "3", "CEO", DefaultTeamId)}

\* init_db: the settings rows of the Default Team
DefaultSettings ==
    {[key |-> SettingKey("max_year_days", DefaultTeamId), value |-> "28"],
     [key |-> SettingKey("max_single_days", DefaultTeamId), value |-> "14"],
     [key |-> SettingKey("overlap_policy", DefaultTeamId), value |-> DEFAULT_OVERLAP]}

\* identities 1 and 2 have joined the Default Team as CEO and TECH through the
\* registration wizard (reg_team_name, reg_role_cb); the others are MANAGERs by
\* first contact (ensure_user_record)
StaffRows ==
    {UserRow(3 + tg, tg, Handle(tg),
             IF tg = 1 THEN "CEO" ELSE IF tg = 2 THEN "TECH" ELSE "MANAGER",
             DefaultTeamId) : tg \in TgIds}

InitTables ==
    /\ handle = [tg \in TgIds |-> "user" \o ToString(tg)]
    /\ apply_state = [tg \in TgIds |-> "END"]
    /\ users = PresetRows \cup StaffRows
    /\ nextUid = 4 + NumIds
    /\ vacations = {}
    /\ nextVid = 1
    /\ admin_actions = {}
    /\ user_data = [tg \in TgIds |-> [admin_wizard |-> "none", reg_state |-> "END",
                                      reg_team_id |-> NULL, forbid_range |-> NoRange,
                                      add_user_username |-> "", apply_type_id |-> NULL,
                                      apply_start |-> NULL, apply_end |-> NULL,
                                      apply_comment |-> ""]]
    /\ buttons = {}
    /\ tasks = {}
    /\ last = [op |-> "init", by |-> 0, result |-> "none", reply |-> NoReply, sent |-> {}]
    /\ unreachable = {}
    /\ superseded = [tg \in TgIds |-> NoRow]

\* init_db: INSERT OR IGNORE INTO teams(name) VALUES('Default Team')
DefaultTeams == {[id |-> DefaultTeamId, name |-> "Default Team"]}

Init ==
    /\ InitTables
    /\ teams = DefaultTeams
    /\ settings = DefaultSettings
    /\ forbidden_dates = {}
    /\ nextFid = 1

\* ------------------------------------------------------------ handlers
\* the messages that reach their chat: a send_message that raises is logged
\* inside its try/except and nothing else happens
Delivered(notes) == {n \in notes : n.to # NULL /\ n.to \notin unreachable}

\* sent: the messages to other chats the handler tried and that were delivered
Did(op, tg, result, reply, sent) ==
    [op |-> op, by |-> tg, result |-> result, reply |-> reply, sent |-> Delivered(sent)]

\* a broadcast loop without its try/except: the first send that raises ends it
AnnouncedUntilFirstFailure(tg, usersNow, team_id) ==
    IF tg \in unreachable THEN {}
    ELSE {a \in AdminRecipients(usersNow, team_id) :
             \A b \in AdminRecipients(usersNow, team_id) : b <= a => b \notin unreachable}

\* process_apply_submission after its INSERT: the message to the requester is
\* sent outside any try, so when it raises notify_admins_and_log is not
\* reached; inside notify_admins_and_log every send has its own try/except
Announced(tg, usersNow, team_id) ==
    IF tg \in unreachable THEN {}
    ELSE AdminRecipients(usersNow, team_id) \ unreachable

\* a submission handler that tells the admins before it runs the rules
apply_confirm_cb_notify_first(tg, start, end, comment) ==
    /\ NeedsNewRow(tg) => nextUid <= MaxUid
    /\ LET e == ensure_user_record(tg)
           user == e.row
           verdict == SubmissionRules(user, start, end)
       IN  /\ verdict.kind = "accepted" => nextVid <= MaxVac
           /\ users' = e.users
           /\ nextUid' = e.nextUid
           /\ buttons' = buttons \cup
                  {<<a, nextVid>> : a \in AdminRecipients(e.users, user.team)}
           /\ IF verdict.kind = "accepted"
              THEN /\ vacations' = vacations \cup {NewVacation(user, start, end, comment)}
                   /\ nextVid' = nextVid + 1
                   /\ last' = Did("apply", tg, "accepted", Reply("sent", nextVid, 0),
                                  NewRequestNotes(e.users, user.team, nextVid))
              ELSE /\ UNCHANGED <<vacations, nextVid>>
                   /\ last' = Did("apply", tg, "rejected", verdict,
                                  NewRequestNotes(e.users, user.team, nextVid))
    /\ apply_state' = [apply_state EXCEPT ![tg] = "END"]
    /\ UNCHANGED <<teams, admin_actions, settings, forbidden_dates, user_data, tasks,
                   unreachable, handle, nextFid>>

\* apply_confirm_cb ('apply:confirm') with process_apply_submission and
\* notify_admins_and_log
apply_confirm_cb(tg, start, end, comment) ==
    /\ NeedsNewRow(tg) => nextUid <= MaxUid
    /\ LET e == ensure_user_record(tg)
           user == e.row
           verdict == SubmissionRules(user, start, end)
       IN  /\ verdict.kind = "accepted" => nextVid <= MaxVac
           /\ users' = e.users
           /\ nextUid' = e.nextUid
           /\ IF verdict.kind = "accepted"
              THEN /\ vacations' = vacations \cup {NewVacation(user, start, end, comment)}
                   /\ nextVid' = nextVid + 1
                   /\ buttons' = buttons \cup
                          {<<a, nextVid>> : a \in Announced(tg, e.users, user.team)}
                   /\ last' = Did("apply", tg, "accepted", Reply("sent", nextVid, 0),
                                  {n \in NewRequestNotes(e.users, user.team, nextVid) :
                                      n.to \in Announced(tg, e.users, user.team)})
              ELSE /\ UNCHANGED <<vacations, nextVid, buttons>>
                   /\ last' = Did("apply", tg, "rejected", verdict, {})
    /\ apply_state' = [apply_state EXCEPT ![tg] = "END"]
    /\ UNCHANGED <<teams, admin_actions, settings, forbidden_dates, user_data, tasks,
                   unreachable, handle, nextFid>>

\* the quick ranges build_quick_ranges_picker offers (7 and 14 days in the
\* source), in the day numbers of the model
QuickDays == {1, 2}

\* apply_quick_cb and menu_cb ('apply_quick:<type>:<days>'), the same code twice:
\* start_d is next_monday_from(date.today()); after process_apply_submission
\* returns, the menu message is edited to 'sent for review' whatever the rules said
apply_quick_cb(tg, start_d, days) ==
    /\ NeedsNewRow(tg) => nextUid <= MaxUid
    /\ LET e == ensure_user_record(tg)
           user == e.row
           end_d == start_d + (days - 1)
           comment == "quick"
           verdict == SubmissionRules(user, start_d, end_d)
           shown == IF tg \in unreachable THEN NoReply
                    ELSE Reply("sent_for_review", start_d, end_d)
       IN  /\ verdict.kind = "accepted" => nextVid <= MaxVac
           /\ users' = e.users
           /\ nextUid' = e.nextUid
           /\ IF verdict.kind = "accepted"
              THEN /\ vacations' = vacations \cup {NewVacation(user, start_d, end_d, comment)}
                   /\ nextVid' = nextVid + 1
                   /\ buttons' = buttons \cup
                          {<<a, nextVid>> : a \in Announced(tg, e.users, user.team)}
                   /\ last' = Did("apply_quick", tg, "accepted", shown,
                                  {n \in NewRequestNotes(e.users, user.team, nextVid) :
                                      n.to \in Announced(tg, e.users, user.team)})
              ELSE /\ UNCHANGED <<vacations, nextVid, buttons>>
                   /\ last' = Did("apply_quick", tg, verdict.kind, shown, {})
    /\ UNCHANGED <<teams, admin_actions, settings, forbidden_dates, user_data, tasks,
                   unreachable, handle, nextFid, apply_state>>

\* admin_action_cb ('admin_action:<action>:<id>'), pressed on a delivered button
admin_action_cb(tg, action, vac_id) ==
    /\ <<tg, vac_id>> \in buttons
    /\ admin_actions' = InsertOrReplaceAction(tg, vac_id, action)
    /\ last' = Did("begin", tg, "recorded", Reply("ask_comment", vac_id, 0), {})
    /\ UNCHANGED <<teams, users, nextUid, vacations, nextVid, settings,
                   forbidden_dates, user_data, buttons, tasks, unreachable, handle, nextFid, apply_state>>

\* admin_skip_comment_cb ('admin:skip_comment')
admin_skip_comment_cb(tg) ==
    /\ IF ~HasAction(tg)
       THEN /\ last' = Did("skip", tg, "no_active_action", NoActiveActionReply, {})
            /\ UNCHANGED <<vacations, admin_actions>>
       ELSE LET d == SkipDecision(tg)
            IN  /\ vacations' = d.vacations
                /\ admin_actions' = d.admin_actions
                /\ last' = Did("skip", tg, d.result, d.reply, d.sent)
    /\ UNCHANGED <<teams, users, nextUid, nextVid, settings,
                   forbidden_dates, user_data, buttons, tasks, unreachable, handle, nextFid, apply_state>>

\* datetime.fromisoformat(text).date() on the ISO string of a day number
IsoOf(d) == "2025-01-0" \o ToString(d)
IsDate(text) == \E d \in Dates : IsoOf(d) = text
DateOf(text) == CHOOSE d \in Dates : IsoOf(d) = text

\* admin_menu_cb, the keys that only open a text wizard:
\* admin:forbid_date, admin:unforbid_date, admin:set_max_year, admin:set_max_single
admin_menu_cb_wizard(tg, wizard) ==
    /\ NeedsNewRow(tg) => nextUid <= MaxUid
    /\ LET e == ensure_user_record(tg)
       IN  /\ users' = e.users
           /\ nextUid' = e.nextUid
           /\ IF ~is_admin_role(e.row.role)
              THEN /\ UNCHANGED user_data
                   /\ last' = Did("admin_menu", tg, "no_rights", Reply("no_rights", 0, 0), {})
              ELSE /\ user_data' = [user_data EXCEPT ![tg].admin_wizard = wizard]
                   /\ last' = Did("admin_menu", tg, "wizard", Reply(wizard, 0, 0), {})
    /\ UNCHANGED <<teams, vacations, nextVid, admin_actions, settings,
                   forbidden_dates, buttons, tasks, unreachable, handle, nextFid, apply_state>>

\* a DELETE that is never committed
UnforbidNothing(team_id, d) == forbidden_dates

\* a DELETE whose WHERE has lost the date
UnforbidWholeTeam(team_id, d) == {r \in forbidden_dates : r.team # team_id}

\* admin_text_handler: DELETE FROM forbidden_dates WHERE team_id=? AND date=?
Unforbid(team_id, d) == {r \in forbidden_dates : ~(r.team = team_id /\ r.date = d)}

\* admin_text_handler: 'if not user or not is_admin_role(user["role"])'
IsAdmin(tg) == HasUser(tg) /\ is_admin_role(get_user_by_tg_id(tg).role)

\* a wizard that is closed by an input it cannot read
WizardClearedAfterBadInput(wizard) == "none"

\* set_max_year / set_max_single, 'except: ... return': admin_wizard is not popped
WizardAfterBadInput(wizard) == wizard

\* text.lstrip('@') on '@', on '@<username>' and on any other text
lstrip_at(text) ==
    IF text = "@" THEN ""
    ELSE IF \E n \in Usernames : text = "@" \o n
    THEN CHOOSE n \in Usernames : text = "@" \o n
    ELSE text

\* 'YYYY-MM-DD YYYY-MM-DD': text.split() of two ISO dates
RangeText(d1, d2) == IsoOf(d1) \o " " \o IsoOf(d2)
IsRange(text) == \E d1, d2 \in Dates : RangeText(d1, d2) = text
RangeOf(text) == CHOOSE r \in Dates \X Dates : RangeText(r[1], r[2]) = text

\* the days d of 'while d <= d2' starting at d1
RangeDays(range) == range[1]..range[2]

\* forbid_note / admin:forbid_note_skip: one INSERT INTO forbidden_dates per day
Forbid(team_id, range, note) ==
    forbidden_dates \cup
       {[id |-> nextFid + (d - range[1]), team |-> team_id, date |-> d, note |-> note] :
           d \in RangeDays(range)}

\* the id counter after the INSERTs, and the bound of the run on it
ForbidFits(tg) ==
    user_data[tg].forbid_range # NoRange
    => nextFid + Cardinality(RangeDays(user_data[tg].forbid_range)) <= MaxFid + 1

\* admin_text_handler: any text message that is not a command
admin_text_handler(tg, text) ==
    LET wizard == user_data[tg].admin_wizard
        isAdmin == IsAdmin(tg)
        caller == get_user_by_tg_id(tg)
        short_key == IF wizard = "set_max_year" THEN "max_year_days" ELSE "max_single_days"
        range == user_data[tg].forbid_range
    IN
    /\ wizard = "forbid_note" => ForbidFits(tg)
    /\ IF ~isAdmin /\ wizard \notin {"add_user_wait_username", "forbid_date_range_reg",
                                     "forbid_note_reg"}
       THEN /\ last' = Did("text", tg, "ignored", NoReply, {})
            /\ UNCHANGED <<vacations, admin_actions, settings, forbidden_dates, nextFid,
                           user_data>>
       ELSE IF wizard = "unforbid_date"
       THEN IF ~IsDate(text)
            THEN /\ last' = Did("text", tg, "bad_format", Reply("date_format", 0, 0), {})
                 /\ UNCHANGED <<vacations, admin_actions, settings, forbidden_dates, nextFid,
                                user_data>>
            ELSE /\ forbidden_dates' = Unforbid(caller.team, DateOf(text))
                 /\ user_data' = [user_data EXCEPT ![tg].admin_wizard = "none"]
                 /\ last' = Did("text", tg, "unforbidden", Reply("date_allowed", DateOf(text), 0), {})
                 /\ UNCHANGED <<vacations, admin_actions, settings, nextFid>>
       ELSE IF HasAction(tg)
       THEN LET d == TextDecision(tg, text)
            IN  /\ vacations' = d.vacations
                /\ admin_actions' = d.admin_actions
                /\ last' = Did("text", tg, d.result, d.reply, d.sent)
                /\ UNCHANGED <<settings, forbidden_dates, nextFid, user_data>>
       ELSE IF wizard = "none"
       THEN /\ last' = Did("text", tg, "ignored", NoReply, {})
            /\ UNCHANGED <<vacations, admin_actions, settings, forbidden_dates, nextFid,
                           user_data>>
       ELSE IF wizard = "add_user_wait_username"
       THEN IF lstrip_at(text) = ""
            THEN /\ last' = Did("text", tg, "bad_format", Reply("send_username", 0, 0), {})
                 /\ UNCHANGED <<vacations, admin_actions, settings, forbidden_dates, nextFid,
                                user_data>>
            ELSE /\ user_data' = [user_data EXCEPT
                                      ![tg].add_user_username = lstrip_at(text),
                                      ![tg].admin_wizard = "add_user_pick_role"]
                 /\ last' = Did("text", tg, "ask_role", Reply("ask_role", 0, 0), {})
                 /\ UNCHANGED <<vacations, admin_actions, settings, forbidden_dates, nextFid>>
       ELSE IF wizard = "forbid_date"
       THEN IF ~IsDate(text) /\ ~IsRange(text)
            THEN /\ last' = Did("text", tg, "bad_format", Reply("date_format", 0, 0), {})
                 /\ UNCHANGED <<vacations, admin_actions, settings, forbidden_dates, nextFid,
                                user_data>>
            ELSE /\ user_data' = [user_data EXCEPT
                                      ![tg].forbid_range =
                                          IF IsDate(text) THEN <<DateOf(text), DateOf(text)>>
                                                          ELSE RangeOf(text),
                                      ![tg].admin_wizard = "forbid_note"]
                 /\ last' = Did("text", tg, "ask_note", Reply("ask_note", 0, 0), {})
                 /\ UNCHANGED <<vacations, admin_actions, settings, forbidden_dates, nextFid>>
       ELSE IF wizard = "forbid_note"
       THEN IF range = NoRange
            THEN /\ last' = Did("text", tg, "no_range", Reply("no_range", 0, 0), {})
                 /\ UNCHANGED <<vacations, admin_actions, settings, forbidden_dates, nextFid,
                                user_data>>
            ELSE /\ forbidden_dates' = Forbid(caller.team, range, text)
                 /\ nextFid' = nextFid + Cardinality(RangeDays(range))
                 /\ user_data' = [user_data EXCEPT ![tg].forbid_range = NoRange,
                                                   ![tg].admin_wizard = "none"]
                 /\ last' = Did("text", tg, "forbidden", Reply("range_saved", range[1], range[2]), {})
                 /\ UNCHANGED <<vacations, admin_actions, settings>>
       ELSE IF wizard \in {"set_max_year", "set_max_single"}
       THEN IF ~IsInt(text)
            THEN /\ last' = Did("text", tg, "bad_format", Reply("send_integer", 0, 0), {})
                 /\ user_data' = [user_data EXCEPT
                                      ![tg].admin_wizard = WizardAfterBadInput(wizard)]
                 /\ UNCHANGED <<vacations, admin_actions, settings, forbidden_dates, nextFid>>
            ELSE /\ settings' = set_team_setting(caller.team, short_key, ToString(IntOf(text)))
                 /\ user_data' = [user_data EXCEPT ![tg].admin_wizard = "none"]
                 /\ last' = Did("text", tg, "setting_saved", Reply(wizard, IntOf(text), 0), {})
                 /\ UNCHANGED <<vacations, admin_actions, forbidden_dates, nextFid>>
       ELSE /\ last' = Did("text", tg, "ignored", NoReply, {})
            /\ UNCHANGED <<vacations, admin_actions, settings, forbidden_dates, nextFid,
                           user_data>>
    /\ UNCHANGED <<teams, users, nextUid, nextVid, buttons, tasks, unreachable, handle,
                   apply_state>>

\* admin_menu_cb, key 'admin:forbid_note_skip': the range is saved with an empty note
admin_menu_cb_forbid_note_skip(tg) ==
    /\ NeedsNewRow(tg) => nextUid <= MaxUid
    /\ ForbidFits(tg)
    /\ LET e == ensure_user_record(tg)
           range == user_data[tg].forbid_range
       IN  /\ users' = e.users
           /\ nextUid' = e.nextUid
           /\ IF ~is_admin_role(e.row.role)
              THEN /\ UNCHANGED <<forbidden_dates, nextFid, user_data>>
                   /\ last' = Did("admin_menu", tg, "no_rights", Reply("no_rights", 0, 0), {})
              ELSE IF range = NoRange
              THEN /\ UNCHANGED <<forbidden_dates, nextFid, user_data>>
                   /\ last' = Did("forbid_note_skip", tg, "no_range", Reply("no_range", 0, 0), {})
              ELSE /\ forbidden_dates' = Forbid(e.row.team, range, "")
                   /\ nextFid' = nextFid + Cardinality(RangeDays(range))
                   /\ user_data' = [user_data EXCEPT ![tg].forbid_range = NoRange,
                                                     ![tg].admin_wizard = "none"]
                   /\ last' = Did("forbid_note_skip", tg, "forbidden",
                                  Reply("range_saved", range[1], range[2]), {})
    /\ UNCHANGED <<teams, vacations, nextVid, admin_actions, settings, buttons, tasks,
                   unreachable, handle, apply_state>>

\* a delete_cb whose DELETE FROM admin_actions has lost its WHERE
delete_cb_all_actions(tg) ==
    /\ IF ~HasUser(tg)
       THEN /\ last' = Did("delete", tg, "not_member", Reply("not_member", 0, 0), {})
            /\ UNCHANGED <<users, vacations, admin_actions, user_data>>
       ELSE LET user == get_user_by_tg_id(tg)
            IN  /\ vacations' = {v \in vacations : v.user # user.id}
                /\ admin_actions' = {}
                /\ users' = {u \in users : u.id # user.id}
                /\ user_data' = [user_data EXCEPT ![tg].admin_wizard = "none",
                                                  ![tg].add_user_username = "",
                                                  ![tg].forbid_range = NoRange]
                /\ last' = Did("delete", tg, "left", Reply("left", user.id, 0), {})
    /\ UNCHANGED <<teams, nextUid, nextVid, settings, forbidden_dates, buttons, tasks,
                   unreachable, handle, nextFid, apply_state>>

\* delete_cb ('delete:yes'): the identity leaves its team
delete_cb(tg) ==
    /\ IF ~HasUser(tg)
       THEN /\ last' = Did("delete", tg, "not_member", Reply("not_member", 0, 0), {})
            /\ UNCHANGED <<users, vacations, admin_actions, user_data>>
       ELSE LET user == get_user_by_tg_id(tg)
            IN  /\ vacations' = {v \in vacations : v.user # user.id}
                /\ admin_actions' = {r \in admin_actions : r.admin # tg}
                /\ users' = {u \in users : u.id # user.id}
                /\ user_data' = [user_data EXCEPT ![tg].admin_wizard = "none",
                                                  ![tg].add_user_username = "",
                                                  ![tg].forbid_range = NoRange]
                /\ last' = Did("delete", tg, "left", Reply("left", user.id, 0), {})
    /\ UNCHANGED <<teams, nextUid, nextVid, settings, forbidden_dates, buttons, tasks, unreachable, handle, nextFid, apply_state>>

\* ------------------------------------------------------------ members
\* get_user_by_username(username, team_id): the rows fetchone() can return, the
\* SELECT has no ORDER BY
UsersNamedIn(usersNow, username, team_id) ==
    {u \in usersNow : u.username = username /\ u.team = team_id}

\* the placeholder of an invitation: tg_id NULL, the handle, the role, the team
Placeholder(username, role, team_id) ==
    [id |-> nextUid, tg |-> NULL, username |-> username, role |-> role, team |-> team_id]

\* cmd_setrole: /setrole @username ROLE
cmd_setrole(tg, arg, role_arg) ==
    /\ NeedsNewRow(tg) => nextUid <= MaxUid
    /\ LET e == ensure_user_record(tg)
           caller == e.row
           username == lstrip_at(arg)
           found == UsersNamedIn(e.users, username, caller.team)
       IN  IF ~is_admin_role(caller.role)
           THEN /\ users' = e.users
                /\ nextUid' = e.nextUid
                /\ last' = Did("setrole", tg, "no_rights", Reply("admins_only", 0, 0), {})
           ELSE IF role_arg \notin ALL_ROLES
           THEN /\ users' = e.users
                /\ nextUid' = e.nextUid
                /\ last' = Did("setrole", tg, "unknown_role", Reply("unknown_role", 0, 0), {})
           ELSE IF found = {}
           THEN /\ e.nextUid <= MaxInvited
                /\ users' = e.users \cup
                      {[Placeholder(username, role_arg, caller.team) EXCEPT !.id = e.nextUid]}
                /\ nextUid' = e.nextUid + 1
                /\ last' = Did("setrole", tg, "inserted", Reply("role_set", e.nextUid, 0), {})
           ELSE \E user \in found :
                /\ users' = (e.users \ {user}) \cup {[user EXCEPT !.role = role_arg]}
                /\ nextUid' = e.nextUid
                /\ last' = Did("setrole", tg, "updated", Reply("role_set", user.id, 0), {})
    /\ UNCHANGED <<teams, vacations, nextVid, admin_actions, settings, forbidden_dates,
                   user_data, buttons, tasks, unreachable, handle, nextFid, apply_state>>

\* cmd_whoami: /whoami, the first handler of an update that only stores the
\* caller (ensure_user_record) and answers
cmd_whoami(tg) ==
    /\ NeedsNewRow(tg) => nextUid <= MaxInvited
    /\ LET e == ensure_user_record(tg)
       IN  /\ users' = e.users
           /\ nextUid' = e.nextUid
           /\ last' = Did("whoami", tg, "shown", Reply("whoami", e.row.id, e.row.team), {})
    /\ UNCHANGED <<teams, vacations, nextVid, admin_actions, settings, forbidden_dates,
                   user_data, buttons, tasks, unreachable, handle, nextFid, apply_state>>

\* get_user_by_username(username) on a table that is not the stored one yet
LatestNamed(usersNow, username) ==
    CHOOSE u \in usersNow : u.username = username
                            /\ \A w \in usersNow : w.username = username => w.id <= u.id

\* admin_menu_cb, key 'admin:add_user_role:<role>'
admin_menu_cb_add_user_role(tg, role) ==
    /\ NeedsNewRow(tg) => nextUid <= MaxUid
    /\ LET e == ensure_user_record(tg)
           user == e.row
           username == user_data[tg].add_user_username
           exists == \E u \in e.users : u.username = username
           existing_any == LatestNamed(e.users, username)
           cleared == [user_data EXCEPT ![tg].add_user_username = "",
                                        ![tg].admin_wizard = "none"]
       IN  IF ~is_admin_role(user.role)
           THEN /\ users' = e.users
                /\ nextUid' = e.nextUid
                /\ UNCHANGED user_data
                /\ last' = Did("admin_menu", tg, "no_rights", Reply("no_rights", 0, 0), {})
           ELSE IF username = ""
           THEN /\ users' = e.users
                /\ nextUid' = e.nextUid
                /\ UNCHANGED user_data
                /\ last' = Did("add_user_role", tg, "no_username", Reply("send_username", 0, 0), {})
           ELSE IF exists /\ existing_any.team # NULL /\ existing_any.team # user.team
           THEN /\ users' = e.users
                /\ nextUid' = e.nextUid
                /\ user_data' = cleared
                /\ last' = Did("add_user_role", tg, "other_team",
                               Reply("in_other_team", existing_any.team, 0),
                               {[to |-> existing_any.tg, kind |-> "invite", vac |-> 0,
                                 status |-> "none", shown |-> ""]})
           ELSE IF exists /\ existing_any.team = user.team
           THEN /\ users' = (e.users \ {existing_any}) \cup
                                {[existing_any EXCEPT !.role = role]}
                /\ nextUid' = e.nextUid
                /\ user_data' = cleared
                /\ last' = Did("add_user_role", tg, "updated", Reply("role_set", existing_any.id, 0), {})
           ELSE /\ e.nextUid <= MaxInvited
                /\ users' = e.users \cup
                      {[Placeholder(username, role, user.team) EXCEPT !.id = e.nextUid]}
                /\ nextUid' = e.nextUid + 1
                /\ user_data' = cleared
                /\ last' = Did("add_user_role", tg, "inserted", Reply("user_added", e.nextUid, 0), {})
    /\ UNCHANGED <<teams, vacations, nextVid, admin_actions, settings, forbidden_dates,
                   buttons, tasks, unreachable, handle, nextFid, apply_state>>

\* admin_menu_cb, key 'admin:remove_confirm:<uid>'
admin_menu_cb_remove_confirm(tg, uid) ==
    /\ NeedsNewRow(tg) => nextUid <= MaxUid
    /\ LET e == ensure_user_record(tg)
           user == e.row
       IN  /\ nextUid' = e.nextUid
           /\ IF ~is_admin_role(user.role)
              THEN /\ users' = e.users
                   /\ UNCHANGED vacations
                   /\ last' = Did("admin_menu", tg, "no_rights", Reply("no_rights", 0, 0), {})
              ELSE IF uid = user.id
              THEN /\ users' = e.users
                   /\ UNCHANGED vacations
                   /\ last' = Did("remove_confirm", tg, "self", Reply("not_yourself", 0, 0), {})
              ELSE /\ vacations' = {v \in vacations : ~(v.user = uid /\ v.team = user.team)}
                   /\ users' = {u \in e.users : ~(u.id = uid /\ u.team = user.team)}
                   /\ last' = Did("remove_confirm", tg, "removed", Reply("removed", uid, 0), {})
    /\ UNCHANGED <<teams, nextVid, admin_actions, settings, forbidden_dates, user_data,
                   buttons, tasks, unreachable, handle, nextFid, apply_state>>

\* a Telegram account takes another username that no account holds (outside the
\* bot: the bot learns of it at the account's next update)
change_username(tg, username) ==
    /\ username # handle[tg]
    /\ \A other \in TgIds : handle[other] # username
    /\ handle' = [handle EXCEPT ![tg] = username]
    /\ UNCHANGED <<teams, users, nextUid, vacations, nextVid, admin_actions, settings,
                   forbidden_dates, user_data, buttons, tasks, last, unreachable, nextFid,
                   apply_state>>

\* ------------------------------------------------------------ manual submission
\* cmd_apply: /apply, an entry point of apply_conv (allow_reentry=True)
cmd_apply(tg) ==
    /\ NeedsNewRow(tg) => nextUid <= MaxUid
    /\ LET e == ensure_user_record(tg)
       IN  /\ users' = e.users
           /\ nextUid' = e.nextUid
           /\ last' = Did("cmd_apply", tg, "type_picker", Reply("pick_type", e.row.team, 0), {})
    /\ apply_state' = [apply_state EXCEPT ![tg] = "APPLY_TYPE"]
    /\ UNCHANGED <<teams, vacations, nextVid, admin_actions, settings, forbidden_dates,
                   user_data, buttons, tasks, unreachable, handle, nextFid>>

\* the type buttons of build_apply_type_picker carry 'menu_apply_type:<id>'.
\* menu_cb is added to the application before apply_conv and its pattern matches
\* that data, so menu_cb handles the press in every state of the conversation:
\* it shows the quick ranges and stores nothing
menu_cb_apply_type(tg, type_id) ==
    /\ NeedsNewRow(tg) => nextUid <= MaxUid
    /\ LET e == ensure_user_record(tg)
       IN  /\ users' = e.users
           /\ nextUid' = e.nextUid
           /\ last' = Did("menu_apply_type", tg, "quick_ranges", Reply("type_chosen", type_id, 0), {})
    /\ UNCHANGED <<teams, vacations, nextVid, admin_actions, settings, forbidden_dates,
                   user_data, buttons, tasks, unreachable, handle, nextFid, apply_state>>

\* apply_type_menu_cb in state APPLY_TYPE, reached only by data with the old
\* prefix 'apply_type:<id>' (a button of an earlier keyboard): it returns early
\* on any other data
apply_type_menu_cb(tg, type_id) ==
    /\ apply_state[tg] = "APPLY_TYPE"
    /\ user_data' = [user_data EXCEPT ![tg].apply_type_id = type_id]
    /\ last' = Did("apply_type", tg, "quick_ranges", Reply("type_chosen", type_id, 0), {})
    /\ UNCHANGED <<teams, users, nextUid, vacations, nextVid, admin_actions, settings,
                   forbidden_dates, buttons, tasks, unreachable, handle, nextFid, apply_state>>

\* apply_manual_cb ('menu:apply_manual'), an entry point and a handler of APPLY_TYPE
apply_manual_cb(tg) ==
    /\ apply_state' = [apply_state EXCEPT ![tg] = "APPLY_START"]
    /\ last' = Did("apply_manual", tg, "ask_start", Reply("ask_start", 0, 0), {})
    /\ UNCHANGED <<teams, users, nextUid, vacations, nextVid, admin_actions, settings,
                   forbidden_dates, user_data, buttons, tasks, unreachable, handle, nextFid>>

\* apply_start_msg: the text sent in state APPLY_START
apply_start_msg(tg, text) ==
    /\ apply_state[tg] = "APPLY_START"
    /\ IF ~IsDate(text)
       THEN /\ UNCHANGED <<user_data, apply_state>>
            /\ last' = Did("apply_start", tg, "bad_format", Reply("date_format", 0, 0), {})
       ELSE /\ user_data' = [user_data EXCEPT ![tg].apply_start = DateOf(text)]
            /\ apply_state' = [apply_state EXCEPT ![tg] = "APPLY_END"]
            /\ last' = Did("apply_start", tg, "ask_end", Reply("ask_end", 0, 0), {})
    /\ UNCHANGED <<teams, users, nextUid, vacations, nextVid, admin_actions, settings,
                   forbidden_dates, buttons, tasks, unreachable, handle, nextFid>>

\* apply_end_msg: the text sent in state APPLY_END
apply_end_msg(tg, text) ==
    /\ apply_state[tg] = "APPLY_END"
    /\ IF ~IsDate(text)
       THEN /\ UNCHANGED <<user_data, apply_state>>
            /\ last' = Did("apply_end", tg, "bad_format", Reply("date_format", 0, 0), {})
       ELSE /\ user_data' = [user_data EXCEPT ![tg].apply_end = DateOf(text)]
            /\ apply_state' = [apply_state EXCEPT ![tg] = "APPLY_COMMENT"]
            /\ last' = Did("apply_end", tg, "ask_comment", Reply("ask_comment", 0, 0), {})
    /\ UNCHANGED <<teams, users, nextUid, vacations, nextVid, admin_actions, settings,
                   forbidden_dates, buttons, tasks, unreachable, handle, nextFid>>

\* apply_comment_msg and apply_skip_comment_cb: the comment is stored, then
\* context.user_data['apply_type_id'] raises KeyError when the key was never
\* set; a handler that raises leaves the conversation in its state
StoreComment(tg, op, comment) ==
    /\ apply_state[tg] = "APPLY_COMMENT"
    /\ user_data' = [user_data EXCEPT ![tg].apply_comment = comment]
    /\ IF user_data[tg].apply_type_id = NULL
       THEN /\ UNCHANGED apply_state
            /\ last' = Did(op, tg, "KeyError", NoReply, {})
       ELSE /\ apply_state' = [apply_state EXCEPT ![tg] = "APPLY_CONFIRM"]
            /\ last' = Did(op, tg, "ask_confirm",
                           Reply("confirm", user_data[tg].apply_start, user_data[tg].apply_end), {})
    /\ UNCHANGED <<teams, users, nextUid, vacations, nextVid, admin_actions, settings,
                   forbidden_dates, buttons, tasks, unreachable, handle, nextFid>>

apply_comment_msg(tg, text) == StoreComment(tg, "apply_comment", text)

apply_skip_comment_cb(tg) == StoreComment(tg, "apply_skip_comment", "")

\* 'apply:confirm' is handled in state APPLY_CONFIRM only; apply_confirm_cb reads
\* the dates and the comment from user_data
apply_conv_confirm(tg) ==
    /\ apply_state[tg] = "APPLY_CONFIRM"
    /\ apply_confirm_cb(tg, user_data[tg].apply_start, user_data[tg].apply_end,
                        user_data[tg].apply_comment)

\* ------------------------------------------------------------ delivery
\* the chats for which context.bot.send_message raises change at any time
\* (the bot is blocked or unblocked, the network fails or recovers)
send_message_raises(chats) ==
    /\ unreachable' = chats
    /\ unreachable' # unreachable
    /\ UNCHANGED <<teams, users, nextUid, vacations, nextVid, admin_actions, settings,
                   forbidden_dates, user_data, buttons, tasks, last, handle, nextFid, apply_state>>

\* ------------------------------------------------------------ registration
HasTeamNamed(name) == \E t \in teams : t.name = name

get_team_by_name(name) == CHOOSE t \in teams : t.name = name

\* get_team_name as start reads it: "" when the row is missing
TeamNameOf(team_id) ==
    IF \E t \in teams : t.id = team_id
    THEN (CHOOSE t \in teams : t.id = team_id).name
    ELSE ""

\* INTEGER PRIMARY KEY AUTOINCREMENT of teams, whose rows are never deleted
NextTeamId == 1 + Cardinality(teams)

\* create_team and the three default settings reg_team_name writes for it
TeamDefaults(team_id) ==
    {[key |-> SettingKey("max_year_days", team_id), value |-> "28"],
     [key |-> SettingKey("max_single_days", team_id), value |-> "14"],
     [key |-> SettingKey("overlap_policy", team_id), value |-> DEFAULT_OVERLAP]}

\* start (the name is taken by the submitted start date): /start, the entry
\* point of reg_conv
start_cmd(tg) ==
    /\ NeedsNewRow(tg) => nextUid <= MaxUid
    /\ LET e == ensure_user_record(tg)
           team_name == IF e.row.team # NULL THEN TeamNameOf(e.row.team) ELSE "Default Team"
       IN  /\ users' = e.users
           /\ nextUid' = e.nextUid
           /\ IF team_name = "Default Team"
              THEN /\ user_data' = [user_data EXCEPT ![tg].reg_state = "REG_TEAM_NAME"]
                   /\ last' = Did("start", tg, "registration", Reply("ask_team_name", 0, 0), {})
              ELSE /\ user_data' = [user_data EXCEPT ![tg].reg_state = "END"]
                   /\ last' = Did("start", tg, "menu", Reply("menu", e.row.team, 0), {})
    /\ UNCHANGED <<teams, vacations, nextVid, admin_actions, settings, forbidden_dates,
                   buttons, tasks, unreachable, handle, nextFid, apply_state>>

\* reg_team_name: the text sent in state REG_TEAM_NAME
reg_team_name(tg, team_name) ==
    /\ user_data[tg].reg_state = "REG_TEAM_NAME"
    /\ IF ~HasTeamNamed(team_name)
       THEN /\ teams' = teams \cup {[id |-> NextTeamId, name |-> team_name]}
            /\ settings' = {r \in settings : r.key \notin {d.key : d \in TeamDefaults(NextTeamId)}}
                              \cup TeamDefaults(NextTeamId)
            /\ user_data' = [user_data EXCEPT ![tg].reg_team_id = NextTeamId,
                                              ![tg].reg_state = "REG_ROLE"]
            /\ last' = Did("reg_team_name", tg, "created", Reply("team_created", NextTeamId, 0), {})
       ELSE /\ UNCHANGED <<teams, settings>>
            /\ user_data' = [user_data EXCEPT ![tg].reg_team_id = get_team_by_name(team_name).id,
                                              ![tg].reg_state = "REG_ROLE"]
            /\ last' = Did("reg_team_name", tg, "found",
                           Reply("team_found", get_team_by_name(team_name).id, 0), {})
    /\ UNCHANGED <<users, nextUid, vacations, nextVid, admin_actions, forbidden_dates,
                   buttons, tasks, unreachable, handle, nextFid, apply_state>>

\* reg_role_cb ('reg:role:<role>'): UPDATE users SET role=?, team_id=? WHERE tg_id=?
reg_role_cb(tg, role) ==
    /\ user_data[tg].reg_state = "REG_ROLE"
    /\ IF user_data[tg].reg_team_id = NULL
       THEN /\ UNCHANGED users
            /\ user_data' = [user_data EXCEPT ![tg].reg_state = "END"]
            /\ last' = Did("reg_role", tg, "error", Reply("registration_error", 0, 0), {})
       ELSE /\ users' = {IF u.tg = tg
                         THEN [u EXCEPT !.role = role, !.team = user_data[tg].reg_team_id]
                         ELSE u : u \in users}
            /\ user_data' = [user_data EXCEPT ![tg].reg_state = "REG_TYPES_Q"]
            /\ last' = Did("reg_role", tg, "registered",
                           Reply("registered", user_data[tg].reg_team_id, 0), {})
    /\ UNCHANGED <<teams, nextUid, vacations, nextVid, admin_actions, settings,
                   forbidden_dates, buttons, tasks, unreachable, handle, nextFid, apply_state>>

\* ------------------------------------------------------------ concurrent submission
\* Application.concurrent_updates(True): another handler runs at every await of
\* process_apply_submission.  apply_validate is the handler up to its INSERT,
\* apply_insert is the INSERT, the message to the requester and notify_admins_and_log.
apply_validate(tg, start, end, comment) ==
    /\ NeedsNewRow(tg) => nextUid <= MaxUid
    /\ Cardinality(tasks) < MaxTasks
    /\ nextVid + Cardinality(tasks) <= MaxVac
    /\ \A t \in tasks : t.tg # tg
    /\ LET e == ensure_user_record(tg)
           user == e.row
           verdict == SubmissionRules(user, start, end)
       IN  /\ users' = e.users
           /\ nextUid' = e.nextUid
           /\ IF verdict.kind = "accepted"
              THEN /\ tasks' = tasks \cup {[tg |-> tg, user |-> user, start |-> start,
                                            end |-> end, comment |-> comment]}
                   /\ last' = Did("validate", tg, "validated", NoReply, {})
              ELSE /\ UNCHANGED tasks
                   /\ last' = Did("validate", tg, "rejected", verdict, {})
    /\ UNCHANGED <<teams, vacations, nextVid, admin_actions, settings, forbidden_dates,
                   user_data, buttons, unreachable, handle, nextFid, apply_state>>

apply_insert(t) ==
    /\ t \in tasks
    /\ tasks' = tasks \ {t}
    /\ vacations' = vacations \cup {NewVacation(t.user, t.start, t.end, t.comment)}
    /\ nextVid' = nextVid + 1
    /\ buttons' = buttons \cup {<<a, nextVid>> : a \in Announced(t.tg, users, t.user.team)}
    /\ last' = Did("apply", t.tg, "accepted", Reply("sent", nextVid, 0),
                   {n \in NewRequestNotes(users, t.user.team, nextVid) :
                       n.to \in Announced(t.tg, users, t.user.team)})
    /\ apply_state' = [apply_state EXCEPT ![t.tg] = "END"]
    /\ UNCHANGED <<teams, users, nextUid, admin_actions, settings, forbidden_dates,
                   user_data, unreachable, handle, nextFid>>

\* ------------------------------------------------------------ specifications
\* history of admin_actions: the row that the admin's latest recorded action
\* replaced, NoRow when it replaced none
History ==
    superseded' = [tg \in TgIds |->
        IF \E r \in admin_actions' : r.admin = tg /\ r \notin admin_actions
        THEN (IF HasAction(tg) THEN ActionOf(tg) ELSE NoRow)
        ELSE superseded[tg]]

\* a specification whose properties do not read the history leaves it alone
NoHistory == UNCHANGED superseded

\* the request lifecycle under the settings of init_db: submissions, admin
\* decisions by button and by text, leaving the team
Next ==
    \/ \E tg \in TgIds :
          apply_confirm_cb(tg, 1, 2, "note") /\ History
    \/ \E tg \in TgIds, a \in {"approve", "reject"}, id \in 1..MaxVac :
          admin_action_cb(tg, a, id) /\ History
    \/ \E tg \in TgIds : admin_skip_comment_cb(tg) /\ History
    \/ \E tg \in TgIds : admin_text_handler(tg, "ok") /\ History
    \/ \E tg \in TgIds : delete_cb(tg) /\ History

Spec == Init /\ [][Next]_vars

\* the team has chosen deny_all (admin_menu_cb, admin:overlap_set:deny_all)
DenyAllSettings ==
    {r \in DefaultSettings : r.key # SettingKey("overlap_policy", DefaultTeamId)}
        \cup {[key |-> SettingKey("overlap_policy", DefaultTeamId), value |-> "deny_all"]}

InitRace ==
    /\ InitTables
    /\ teams = DefaultTeams
    /\ settings = DenyAllSettings
    /\ forbidden_dates = {}
    /\ nextFid = 1

\* submissions handled concurrently with each other, with decisions and with leaving
NextRace ==
    \/ \E tg \in TgIds, start \in 1..2, end \in 1..2 :
          apply_validate(tg, start, end, "note") /\ History
    \/ \E t \in tasks : apply_insert(t) /\ History
    \/ \E a \in {"approve", "reject"}, id \in 1..MaxVac :
          admin_action_cb(1, a, id) /\ History
    \/ admin_skip_comment_cb(1) /\ History
    \/ \E tg \in TgIds : delete_cb(tg) /\ History

SpecRace == InitRace /\ [][NextRace]_vars

\* text messages between the admin wizards and the recorded decisions
NextText ==
    \/ \E tg \in TgIds :
          apply_confirm_cb(tg, 1, 2, "note") /\ NoHistory
    \/ \E tg \in TgIds, id \in 1..MaxVac :
          admin_action_cb(tg, "approve", id) /\ NoHistory
    \/ \E tg \in TgIds : admin_skip_comment_cb(tg) /\ NoHistory
    \/ \E tg \in TgIds, wizard \in {"set_max_single", "unforbid_date"} :
          admin_menu_cb_wizard(tg, wizard) /\ NoHistory
    \/ \E tg \in TgIds, text \in Texts : admin_text_handler(tg, text) /\ NoHistory

SpecText == Init /\ [][NextText]_vars

\* the rules of a submission under the settings and forbidden days an admin can
\* have stored (admin:set_max_year, admin:set_max_single, admin:overlap_set,
\* admin:forbid_date)
RuleSettings(max_year, max_single, policy) ==
    {[key |-> SettingKey("max_year_days", DefaultTeamId), value |-> max_year],
     [key |-> SettingKey("max_single_days", DefaultTeamId), value |-> max_single],
     [key |-> SettingKey("overlap_policy", DefaultTeamId), value |-> policy]}

\* a second team has been created (reg_team_name, create_team) and has forbidden a
\* day; its creator has left since (delete_cb keeps the team and its rows)
OtherTeamId == 2

ForbiddenRow(id, team_id, d) == [id |-> id, team |-> team_id, date |-> d, note |-> ""]

OneForbiddenDate == {ForbiddenRow(1, DefaultTeamId, 1)}

ManyForbiddenDates ==
    {ForbiddenRow(1, DefaultTeamId, 1), ForbiddenRow(2, OtherTeamId, 2),
     ForbiddenRow(3, DefaultTeamId, 3)}

RuleCases ==
    {[settings |-> RuleSettings("28", "14", "allow_all"), forbidden |-> OneForbiddenDate],
     [settings |-> RuleSettings("1", "14", "deny_same_role"), forbidden |-> {}],
     [settings |-> RuleSettings("28", "1", "deny_all"), forbidden |-> {}],
     [settings |-> RuleSettings("28", "1", "deny_all"), forbidden |-> ManyForbiddenDates]}

InitRules ==
    /\ InitTables
    /\ teams = DefaultTeams \cup {[id |-> OtherTeamId, name |-> "Team B"]}
    /\ \E c \in RuleCases : /\ settings = c.settings
                           /\ forbidden_dates = c.forbidden
                           /\ nextFid = 1 + Cardinality(c.forbidden)

NextRules ==
    \/ \E tg \in TgIds, start \in Dates, end \in Dates :
          apply_confirm_cb(tg, start, end, "note") /\ NoHistory
    \/ \E a \in {"approve", "reject"}, id \in 1..MaxVac :
          admin_action_cb(1, a, id) /\ NoHistory
    \/ admin_skip_comment_cb(1) /\ NoHistory

SpecRules == InitRules /\ [][NextRules]_vars

\* allowing a forbidden day again and submitting, under the stored rule settings
NextForbid ==
    \/ \E tg \in TgIds, start \in Dates, end \in Dates :
          apply_confirm_cb(tg, start, end, "note") /\ NoHistory
    \/ admin_menu_cb_wizard(1, "unforbid_date") /\ NoHistory
    \/ \E d \in Dates : admin_text_handler(1, IsoOf(d)) /\ NoHistory

SpecForbid == InitRules /\ [][NextForbid]_vars

\* quick-range submissions under the stored rule settings, and their decisions
NextQuick ==
    \/ \E tg \in TgIds, start_d \in 1..2, days \in QuickDays :
          apply_quick_cb(tg, start_d, days) /\ NoHistory
    \/ \E a \in {"approve", "reject"}, id \in 1..MaxVac :
          admin_action_cb(1, a, id) /\ NoHistory
    \/ admin_skip_comment_cb(1) /\ NoHistory

SpecQuick == InitRules /\ [][NextQuick]_vars

\* an admin forbids days and ranges of days, with and without a note, and allows
\* days again
ForbidTexts == {IsoOf(1), RangeText(1, 2)}

NextForbidDates ==
    \/ \E wizard \in {"forbid_date", "unforbid_date"} :
          admin_menu_cb_wizard(1, wizard) /\ NoHistory
    \/ \E text \in ForbidTexts : admin_text_handler(1, text) /\ NoHistory
    \/ admin_menu_cb_forbid_note_skip(1) /\ NoHistory

SpecForbidDates == InitRules /\ [][NextForbidDates]_vars

\* members register into teams, submit and decide
TeamNames == {"Team B"}

NextTeams ==
    \/ \E tg \in TgIds : start_cmd(tg) /\ NoHistory
    \/ \E tg \in TgIds, name \in TeamNames : reg_team_name(tg, name) /\ NoHistory
    \/ \E tg \in TgIds, role \in {"CEO"} : reg_role_cb(tg, role) /\ NoHistory
    \/ \E tg \in TgIds : apply_confirm_cb(tg, 1, 2, "note") /\ NoHistory
    \/ \E tg \in TgIds, a \in {"approve", "reject"}, id \in 1..MaxVac :
          admin_action_cb(tg, a, id) /\ NoHistory
    \/ \E tg \in TgIds : admin_skip_comment_cb(tg) /\ NoHistory

SpecTeams == Init /\ [][NextTeams]_vars

\* submissions and decisions while deliveries fail
NextDelivery ==
    \/ \E chats \in SUBSET TgIds : send_message_raises(chats) /\ NoHistory
    \/ \E tg \in TgIds : apply_confirm_cb(tg, 1, 2, "note") /\ NoHistory
    \/ \E tg \in TgIds, a \in {"approve", "reject"}, id \in 1..MaxVac :
          admin_action_cb(tg, a, id) /\ NoHistory
    \/ \E tg \in TgIds : admin_skip_comment_cb(tg) /\ NoHistory
    \/ \E tg \in TgIds : admin_text_handler(tg, "ok") /\ NoHistory

SpecDelivery == Init /\ [][NextDelivery]_vars

\* every update that arrives is handled: the requests of both identities and the
\* decisions of admin 1, under the weak fairness of the dispatcher, which runs a
\* handler for as long as an update is waiting
NextFair ==
    \/ \E tg \in TgIds : apply_confirm_cb(tg, 1, 2, "note") /\ NoHistory
    \/ \E a \in {"approve", "reject"}, id \in 1..MaxVac :
          admin_action_cb(1, a, id) /\ NoHistory
    \/ admin_skip_comment_cb(1) /\ NoHistory

SpecFair == Init /\ [][NextFair]_vars /\ WF_vars(NextFair)

\* reg_conv is registered before admin_text_handler in the same group: a text
\* sent in state REG_TEAM_NAME is the team name and never reaches the admin handler
TextReachesAdminHandler(tg) == user_data[tg].reg_state # "REG_TEAM_NAME"

SettingTexts == {"ok", "7", "9"}

\* teams are created and their admins change the two limits
NextSettings ==
    \/ \E tg \in TgIds : start_cmd(tg) /\ NoHistory
    \/ \E tg \in TgIds, name \in TeamNames : reg_team_name(tg, name) /\ NoHistory
    \/ \E tg \in TgIds : reg_role_cb(tg, "CEO") /\ NoHistory
    \/ \E tg \in TgIds, wizard \in {"set_max_year", "set_max_single"} :
          admin_menu_cb_wizard(tg, wizard) /\ NoHistory
    \/ \E tg \in TgIds, text \in SettingTexts :
          TextReachesAdminHandler(tg) /\ admin_text_handler(tg, text) /\ NoHistory

SpecSettings == Init /\ [][NextSettings]_vars

\* members register into teams, leave them, and are invited by admins with
\* /setrole and with 'add user'
NextMembers ==
    \/ \E tg \in TgIds : start_cmd(tg) /\ NoHistory
    \/ \E tg \in TgIds, name \in TeamNames : reg_team_name(tg, name) /\ NoHistory
    \/ \E tg \in TgIds, role \in {"CEO"} : reg_role_cb(tg, role) /\ NoHistory
    \/ \E tg \in TgIds : cmd_setrole(tg, "@user1", "MANAGER") /\ NoHistory
    \/ admin_menu_cb_wizard(2, "add_user_wait_username") /\ NoHistory
    \/ TextReachesAdminHandler(2) /\ admin_text_handler(2, "@user1") /\ NoHistory
    \/ admin_menu_cb_add_user_role(2, "TECH") /\ NoHistory
    \/ \E tg \in TgIds : delete_cb(tg) /\ NoHistory

SpecMembers == Init /\ [][NextMembers]_vars

\* accounts change their usernames, contact the bot, leave their team, and are
\* invited by admins with /setrole
NextHandles ==
    \/ \E tg \in TgIds, username \in Usernames : change_username(tg, username) /\ NoHistory
    \/ \E tg \in TgIds : cmd_whoami(tg) /\ NoHistory
    \/ \E tg \in TgIds, username \in Usernames :
          cmd_setrole(tg, "@" \o username, "MANAGER") /\ NoHistory
    \/ \E tg \in TgIds : delete_cb(tg) /\ NoHistory

SpecHandles == Init /\ [][NextHandles]_vars

\* a member walks through the manual submission flow.  The fairness conditions
\* say that the member takes every step of the flow that the bot offers again
\* and again: picks a type on the current keyboard, chooses manual entry, sends
\* the dates, answers the comment question, confirms.  A press on a type
\* button of an earlier keyboard (apply_type_menu_cb) is possible and not
\* required.
TypeIds == {1}

Requester == 2

AnswersComment == apply_comment_msg(Requester, "ok") \/ apply_skip_comment_cb(Requester)

NextManual ==
    \/ cmd_apply(Requester) /\ NoHistory
    \/ \E type_id \in TypeIds : menu_cb_apply_type(Requester, type_id) /\ NoHistory
    \/ \E type_id \in TypeIds : apply_type_menu_cb(Requester, type_id) /\ NoHistory
    \/ apply_manual_cb(Requester) /\ NoHistory
    \/ \E d \in Dates : apply_start_msg(Requester, IsoOf(d)) /\ NoHistory
    \/ \E d \in Dates : apply_end_msg(Requester, IsoOf(d)) /\ NoHistory
    \/ apply_comment_msg(Requester, "ok") /\ NoHistory
    \/ apply_skip_comment_cb(Requester) /\ NoHistory
    \/ apply_conv_confirm(Requester) /\ NoHistory

SpecManual ==
    /\ Init
    /\ [][NextManual]_vars
    /\ SF_vars(\E type_id \in TypeIds : menu_cb_apply_type(Requester, type_id) /\ NoHistory)
    /\ SF_vars(apply_manual_cb(Requester) /\ NoHistory)
    /\ SF_vars(\E d \in Dates : apply_start_msg(Requester, IsoOf(d)) /\ NoHistory)
    /\ SF_vars(\E d \in Dates : apply_end_msg(Requester, IsoOf(d)) /\ NoHistory)
    /\ SF_vars(AnswersComment /\ NoHistory)
    /\ SF_vars(apply_conv_confirm(Requester) /\ NoHistory)

\* members submit, register into another team, leave, and are removed by admins
NextRemoval ==
    \/ \E tg \in TgIds : apply_confirm_cb(tg, 1, 2, "note") /\ NoHistory
    \/ \E tg \in TgIds : start_cmd(tg) /\ NoHistory
    \/ \E tg \in TgIds, name \in TeamNames : reg_team_name(tg, name) /\ NoHistory
    \/ \E tg \in TgIds, role \in {"CEO"} : reg_role_cb(tg, role) /\ NoHistory
    \/ \E tg \in TgIds, uid \in 1..MaxUid : admin_menu_cb_remove_confirm(tg, uid) /\ NoHistory
    \/ \E tg \in TgIds : delete_cb(tg) /\ NoHistory

SpecRemoval == Init /\ [][NextRemoval]_vars

\* ------------------------------------------------------------ properties
Active(v) == v.status \in {"pending", "approved"}

\* the step was taken by handler op for identity tg
StepOf(op, tg) == last'.op = op /\ last'.by = tg

\* admin_text_handler gets as far as looking up the sender's recorded action
TextLooksUpAction(tg) == IsAdmin(tg) /\ user_data[tg].admin_wizard # "unforbid_date"

\* C1: a request whose status is approved, rejected or cancelled keeps its status
\* and its admin comment in every later step
OnlyPendingTransitions ==
    [][\A v \in vacations : v.status # "pending" =>
          \A w \in vacations' : w.id = v.id =>
              w.status = v.status /\ w.comment = v.comment]_vars

\* C2: a submission validated under deny_all whose dates intersect a pending or
\* approved request of the requester's team is rejected and leaves nothing to insert
DenyAllRejectsIntersecting ==
    [][\A tg \in TgIds, start \in Dates, end \in Dates :
          LET team_id == ensure_user_record(tg).row.team
          IN  (/\ StepOf("validate", tg)
               /\ apply_validate(tg, start, end, "note")
               /\ get_team_setting(team_id, "overlap_policy", DEFAULT_OVERLAP) = "deny_all"
               /\ \E v \in vacations : /\ v.team = team_id
                                       /\ Active(v)
                                       /\ dates_overlap(start, end, v.start, v.end))
              => /\ last'.result = "rejected"
                 /\ tasks' = tasks
                 /\ vacations' = vacations]_vars

\* C3: while the team's policy is deny_all, no two pending or approved requests of
\* the team have intersecting dates
NoActiveOverlap ==
    \A v \in vacations, w \in vacations :
        (/\ v.id # w.id
         /\ v.team = w.team
         /\ get_team_setting(v.team, "overlap_policy", DEFAULT_OVERLAP) = "deny_all"
         /\ Active(v) /\ Active(w))
        => ~dates_overlap(v.start, v.end, w.start, w.end)

\* C4: when an admin's recorded (req2, reject) has replaced his recorded
\* (req1, approve), his skip-comment finalize sets req2 to rejected and leaves the
\* row of req1 as it was
SingleSlotFinalize ==
    [][\A tg \in TgIds :
          (/\ HasAction(tg)
           /\ ActionOf(tg).action = "reject"
           /\ RequestFound(ActionOf(tg).vac)
           /\ superseded[tg].action = "approve"
           /\ superseded[tg].vac # ActionOf(tg).vac
           /\ StepOf("skip", tg))
          => /\ \E w \in vacations' : w.id = ActionOf(tg).vac /\ w.status = "rejected"
             /\ \A v \in vacations : v.id = superseded[tg].vac => v \in vacations']_vars

\* C4 witness: the admin has finalized req2 as rejected without a comment while
\* req1, whose recorded approve was replaced, is still pending with its comment
SingleSlotFinalizeWitness ==
    \E tg \in TgIds :
        /\ last.op = "skip" /\ last.by = tg /\ last.result = "rejected"
        /\ superseded[tg].action = "approve"
        /\ superseded[tg].vac # last.reply.a
        /\ \E v \in vacations : /\ v.id = superseded[tg].vac
                                /\ v.status = "pending" /\ v.comment = "note"
        /\ \E w \in vacations : /\ w.id = last.reply.a
                                /\ w.status = "rejected" /\ w.comment = ""

\* C5: no two rows of admin_actions belong to the same admin
OneActionPerAdmin ==
    \A r1 \in admin_actions, r2 \in admin_actions : r1.admin = r2.admin => r1 = r2

\* C5 witness: a recorded action has just replaced a different one of the same admin
OneActionPerAdminWitness ==
    \E tg \in TgIds :
        /\ last.op = "begin" /\ last.by = tg
        /\ superseded[tg] # NoRow
        /\ HasAction(tg) /\ ActionOf(tg) # superseded[tg]
        /\ Cardinality({r \in admin_actions : r.admin = tg}) = 1

\* C6: a finalize that finds the admin's recorded action and its request leaves
\* the request with the status of the action and the supplied comment, the admin
\* without a recorded action and the other admins' recorded actions as they were
FinalizeAppliesDecision ==
    [][\A tg \in TgIds, comment \in {""} \cup Texts :
          (/\ HasAction(tg)
           /\ RequestFound(ActionOf(tg).vac)
           /\ \/ comment = "" /\ StepOf("skip", tg)
              \/ /\ TextLooksUpAction(tg)
                 /\ StepOf("text", tg)
                 /\ admin_text_handler(tg, comment))
          => /\ \E w \in vacations' :
                  /\ w.id = ActionOf(tg).vac
                  /\ w.status = (IF ActionOf(tg).action = "approve"
                                 THEN "approved" ELSE "rejected")
                  /\ w.comment = comment
             /\ \A r \in admin_actions' : r.admin # tg
             /\ {r \in admin_actions' : r.admin # tg}
                    = {r \in admin_actions : r.admin # tg}]_vars

\* C6 witness: an admin has finalized with a text comment while another admin's
\* recorded action is still there
FinalizeAppliesDecisionWitness ==
    /\ last.op = "text" /\ last.result \in {"approved", "rejected"}
    /\ ~HasAction(last.by)
    /\ admin_actions # {}
    /\ \E w \in vacations : w.id = last.reply.a /\ w.status = last.result /\ w.comment = "ok"

\* C7: for an admin with a recorded action, the text finalize with an empty
\* comment and the skip-comment finalize end in the same vacations and
\* admin_actions tables and send the same notification
FreeTextEqualsSkip ==
    \A tg \in TgIds :
        HasAction(tg) =>
            LET byText == TextDecision(tg, "/skip")
                bySkip == SkipDecision(tg)
            IN  /\ byText.vacations = bySkip.vacations
                /\ byText.admin_actions = bySkip.admin_actions
                /\ byText.sent = bySkip.sent

MissingRequestFinalize ==
    [][\A tg \in TgIds :
          (/\ HasAction(tg)
           /\ \A v \in vacations : v.id # ActionOf(tg).vac
           /\ (StepOf("skip", tg) \/ (TextLooksUpAction(tg) /\ StepOf("text", tg))))
          => /\ last'.result = "not_found"
             /\ vacations' = vacations
             /\ last'.sent = {}]_vars

\* C9 witness: a text finalize has failed as not found after the requester left,
\* with another request still in the table
MissingRequestFinalizeWitness ==
    /\ last.op = "text" /\ last.result = "not_found"
    /\ HasAction(last.by)
    /\ \A v \in vacations : v.id # ActionOf(last.by).vac
    /\ vacations # {}

\* C10: a submission with end < start is answered with the end-before-start
\* rejection, whatever the other rules say, inserts no request and notifies no admin
EndBeforeStartRejected ==
    [][\A tg \in TgIds, start \in Dates, end \in Dates :
          (end < start /\ StepOf("apply", tg) /\ apply_confirm_cb(tg, start, end, "note"))
          => /\ last'.result = "rejected"
             /\ last'.reply = Reply("end_before_start", 0, 0)
             /\ vacations' = vacations
             /\ nextVid' = nextVid
             /\ buttons' = buttons
             /\ last'.sent = {}]_vars

\* C10 witness: the end-before-start rejection was given under deny_all with a
\* forbidden day and a cap of one day, while an approved request is in the table
EndBeforeStartRejectedWitness ==
    /\ last.op = "apply" /\ last.reply = Reply("end_before_start", 0, 0)
    /\ get_team_setting(DefaultTeamId, "overlap_policy", DEFAULT_OVERLAP) = "deny_all"
    /\ forbidden_dates # {}
    /\ \E v \in vacations : v.status = "approved"

\* ------------------------------------------------------------ the rules, stated
\* on the tables
\* the submission (start, end) of identity tg is the step taken
Submits(tg, start, end) == StepOf("apply", tg) /\ apply_confirm_cb(tg, start, end, "note")

Submitter(tg) == ensure_user_record(tg).row

DayCount(start, end) == end - start + 1

\* days of [start,end] that the team has forbidden
ForbiddenDays(team_id, start, end) ==
    {d \in start..end : \E r \in forbidden_dates : r.team = team_id /\ r.date = d}

CapOf(team_id) == IntOf(get_team_setting(team_id, "max_single_days", "14"))

QuotaOf(team_id) == IntOf(get_team_setting(team_id, "max_year_days", "28"))

PolicyOf(team_id) == get_team_setting(team_id, "overlap_policy", DEFAULT_OVERLAP)

\* pending and approved requests of the team that intersect [start,end]
Intersecting(team_id, start, end) ==
    {v \in vacations : /\ v.team = team_id
                       /\ Active(v)
                       /\ dates_overlap(start, end, v.start, v.end)}

OwnerHasRole(v, role) == \E u \in users : u.id = v.user /\ u.role = role

OverlapBlocks(user, start, end) ==
    \/ /\ PolicyOf(user.team) = "deny_all"
       /\ Intersecting(user.team, start, end) # {}
    \/ /\ PolicyOf(user.team) = "deny_same_role"
       /\ \E v \in Intersecting(user.team, start, end) : OwnerHasRole(v, user.role)

\* days of the approved requests of the user that start in the year, summed over
\* the request ids 1..n
RECURSIVE ApprovedDays(_, _, _)
ApprovedDays(uid, year, n) ==
    IF n = 0 THEN 0
    ELSE LET counted == {v \in vacations : /\ v.id = n
                                           /\ v.user = uid
                                           /\ v.status = "approved"
                                           /\ YearOf(v.start) = year}
         IN  (IF counted = {} THEN 0 ELSE (CHOOSE v \in counted : TRUE).days)
                 + ApprovedDays(uid, year, n - 1)

QuotaBlocks(user, start, end) ==
    ApprovedDays(user.id, YearOf(start), nextVid - 1) + DayCount(start, end)
        > QuotaOf(user.team)

\* the answer of the earliest rule, in the order forbidden, cap, overlap, quota,
\* that the submission fails; "sent" when it fails none
EarliestFailing(user, start, end) ==
    IF ForbiddenDays(user.team, start, end) # {} THEN "forbidden"
    ELSE IF DayCount(start, end) > CapOf(user.team) THEN "cap"
    ELSE IF OverlapBlocks(user, start, end) THEN "overlap"
    ELSE IF QuotaBlocks(user, start, end) THEN "quota"
    ELSE "sent"

\* C11: a submission with start <= end is answered by the earliest of the rules
\* forbidden date, cap, overlap policy, annual quota that it fails
RuleOrder ==
    [][\A tg \in TgIds, start \in Dates, end \in Dates :
          (start <= end /\ Submits(tg, start, end))
          => last'.reply.kind = EarliestFailing(Submitter(tg), start, end)]_vars

\* C11 witness: under deny_all and a cap of one day a submission was rejected by
\* the cap while a pending or approved request of the team covers day 2, which
\* every submission of more than one day intersects
RuleOrderWitness ==
    /\ last.op = "apply" /\ last.reply.kind = "cap" /\ last.reply.a = 1
    /\ PolicyOf(DefaultTeamId) = "deny_all"
    /\ MaxDate = 3
    /\ \E v \in vacations : v.team = DefaultTeamId /\ Active(v) /\ v.start <= 2 /\ 2 <= v.end

\* C12: a submission is answered by the forbidden-date rule exactly when a day of
\* [start,end] is forbidden for the submitter's team, and the answer cites the
\* smallest such day
ForbiddenRule ==
    [][\A tg \in TgIds, start \in Dates, end \in Dates :
          Submits(tg, start, end) =>
              LET hit == ForbiddenDays(Submitter(tg).team, start, end)
              IN  /\ last'.reply.kind = "forbidden" <=> hit # {}
                  /\ hit # {} => \A d \in hit : last'.reply.a <= d
                  /\ hit # {} => last'.reply.a \in hit]_vars

\* C12 witness: a request was accepted whose days include a day that another team
\* has forbidden, while its own team has forbidden other days
ForbiddenRuleWitness ==
    /\ last.op = "apply" /\ last.result = "accepted"
    /\ \E v \in vacations :
          /\ v.id = last.reply.a
          /\ \E r \in forbidden_dates : r.team # v.team /\ v.start <= r.date /\ r.date <= v.end
          /\ \E r \in forbidden_dates : r.team = v.team

\* the step has allowed day d again for the team
Unforbids(team_id, d) ==
    /\ last'.op = "text" /\ last'.result = "unforbidden" /\ last'.reply.a = d
    /\ \E u \in users : u.tg = last'.by /\ u.team = team_id

\* C13 as stated: once the only forbidden day of a range is allowed again, the
\* submission of that range is accepted
ResubmissionAccepted ==
    [][\A tg \in TgIds, start \in Dates, end \in Dates, d \in Dates :
          (/\ HasUser(tg)
           /\ ForbiddenDays(Submitter(tg).team, start, end) = {d}
           /\ Unforbids(Submitter(tg).team, d))
          => (SubmissionRules(Submitter(tg), start, end).kind = "accepted")']_vars

\* C13: once the only forbidden day of a range is allowed again, the submission of
\* that range passes the forbidden-date rule, and it is accepted exactly when it
\* passes the cap, the overlap policy and the annual quota
ResubmissionPassesForbiddenRule ==
    [][\A tg \in TgIds, start \in Dates, end \in Dates, d \in Dates :
          (/\ HasUser(tg)
           /\ ForbiddenDays(Submitter(tg).team, start, end) = {d}
           /\ Unforbids(Submitter(tg).team, d))
          => /\ (SubmissionRules(Submitter(tg), start, end).kind # "forbidden")'
             /\ (SubmissionRules(Submitter(tg), start, end).kind = "accepted"
                    <=> EarliestFailing(Submitter(tg), start, end) = "sent")']_vars

\* C13 witness: day 1 has been allowed again while day 3 is still forbidden, and
\* the cap of one day still rejects the range [1,2]
ResubmissionWitness ==
    /\ last.op = "text" /\ last.result = "unforbidden" /\ last.reply.a = 1
    /\ ForbiddenDays(DefaultTeamId, 1, MaxDate) = {3}
    /\ SubmissionRules(get_user_by_tg_id(2), 1, 2).kind = "cap"

\* C14: a submission that passes the forbidden-date rule is answered by the cap
\* exactly when its day count exceeds the team's cap; a day count equal to the
\* cap passes, and a day count of cap + 1 is answered with the cap value
CapRule ==
    [][\A tg \in TgIds, start \in Dates, end \in Dates :
          (/\ start <= end
           /\ Submits(tg, start, end)
           /\ ForbiddenDays(Submitter(tg).team, start, end) = {})
          => LET cap == CapOf(Submitter(tg).team)
             IN  /\ last'.reply.kind = "cap" <=> DayCount(start, end) > cap
                 /\ DayCount(start, end) = cap => last'.reply.kind # "cap"
                 /\ DayCount(start, end) = cap + 1 => last'.reply = Reply("cap", cap, 0)]_vars

\* C14 witness: a request of exactly the cap is in the table and a longer
\* submission has been answered with the cap value
CapRuleWitness ==
    /\ last.op = "apply" /\ last.reply = Reply("cap", CapOf(DefaultTeamId), 0)
    /\ \E v \in vacations : v.team = DefaultTeamId /\ v.days = CapOf(DefaultTeamId)

\* C15: under allow_all no submission is answered by the overlap rule; a
\* submission with start <= end is accepted exactly when it passes the
\* forbidden-date rule, the cap and the quota, whatever it intersects
AllowAllNeverRejects ==
    [][\A tg \in TgIds, start \in Dates, end \in Dates :
          (/\ start <= end
           /\ Submits(tg, start, end)
           /\ PolicyOf(Submitter(tg).team) = "allow_all")
          => LET user == Submitter(tg)
             IN  /\ last'.reply.kind # "overlap"
                 /\ last'.result = "accepted"
                      <=> /\ ForbiddenDays(user.team, start, end) = {}
                          /\ DayCount(start, end) <= CapOf(user.team)
                          /\ ~QuotaBlocks(user, start, end)]_vars

\* C15 witness: under allow_all the request just accepted intersects an earlier
\* pending or approved request of the same team
AllowAllWitness ==
    /\ PolicyOf(DefaultTeamId) = "allow_all"
    /\ last.op = "apply" /\ last.result = "accepted"
    /\ \E v \in vacations, w \in vacations :
          /\ v.id < w.id /\ w.id = last.reply.a
          /\ v.team = w.team /\ Active(v)
          /\ dates_overlap(w.start, w.end, v.start, v.end)

\* C16: under deny_same_role a submission that passes the forbidden-date rule
\* and the cap is answered by the overlap rule exactly when some intersecting
\* pending or approved request of the team is owned by a user of the
\* submitter's role, wherever that request stands among the intersecting ones
SameRoleRule ==
    [][\A tg \in TgIds, start \in Dates, end \in Dates :
          (/\ start <= end
           /\ Submits(tg, start, end)
           /\ PolicyOf(Submitter(tg).team) = "deny_same_role"
           /\ ForbiddenDays(Submitter(tg).team, start, end) = {}
           /\ DayCount(start, end) <= CapOf(Submitter(tg).team))
          => (last'.reply.kind = "overlap"
                <=> \E v \in Intersecting(Submitter(tg).team, start, end) :
                       OwnerHasRole(v, Submitter(tg).role))]_vars

\* C16 witness: a submission was rejected on request 2, owned by a user of the
\* submitter's role, although request 1, which covers the same days and is
\* examined first, is active and owned by a user of another role
SameRoleWitness ==
    /\ PolicyOf(DefaultTeamId) = "deny_same_role"
    /\ last.op = "apply" /\ last.reply = Reply("overlap", 2, 0)
    /\ \E v \in vacations, w \in vacations :
          /\ v.id = 1 /\ w.id = 2 /\ Active(v) /\ Active(w)
          /\ v.team = w.team /\ v.start = w.start /\ v.end = w.end
          /\ ~OwnerHasRole(v, Submitter(last.by).role)
          /\ OwnerHasRole(w, Submitter(last.by).role)

\* C17: a submission that passes the forbidden-date rule, the cap and the
\* overlap policy is answered by the quota exactly when the days of the
\* submitter's approved requests starting in the year of the submitted start,
\* plus the days submitted, exceed the team's quota; the answer cites that
\* sum and the quota; requests of any other status add nothing
QuotaRule ==
    [][\A tg \in TgIds, start \in Dates, end \in Dates :
          (/\ start <= end
           /\ Submits(tg, start, end)
           /\ ForbiddenDays(Submitter(tg).team, start, end) = {}
           /\ DayCount(start, end) <= CapOf(Submitter(tg).team)
           /\ ~OverlapBlocks(Submitter(tg), start, end))
          => LET user == Submitter(tg)
                 used == ApprovedDays(user.id, YearOf(start), nextVid - 1)
             IN  /\ last'.reply.kind = "quota"
                      <=> used + DayCount(start, end) > QuotaOf(user.team)
                 /\ last'.reply.kind = "quota"
                      => last'.reply = Reply("quota", used, QuotaOf(user.team))
                 /\ last'.reply.kind # "quota" => last'.result = "accepted"]_vars

\* C17 witness: with a quota of one day a submitter whose approved request
\* uses the day was answered by the quota
QuotaRuleWitness ==
    /\ last.op = "apply" /\ last.reply = Reply("quota", 1, 1)
    /\ \E v \in vacations : v.user = Submitter(last.by).id /\ v.status = "approved"

\* C17 witness, second case: the submitter has a pending request in the year
\* and the next request in the same year is accepted under a quota of one day
PendingNotCountedWitness ==
    /\ QuotaOf(DefaultTeamId) = 1
    /\ last.op = "apply" /\ last.result = "accepted"
    /\ \E v \in vacations, w \in vacations :
          /\ v.id < w.id /\ w.id = last.reply.a /\ v.user = w.user
          /\ v.status = "pending" /\ YearOf(v.start) = YearOf(w.start)

\* C18: the approval of a pending request takes effect although it brings the
\* approved days of the owner in the year of the request over the team's quota:
\* the quota is a rule of the submission only
ApprovalIgnoresQuota ==
    [][\A tg \in TgIds, v \in vacations :
          (/\ StepOf("skip", tg)
           /\ HasAction(tg) /\ ActionOf(tg).action = "approve"
           /\ RequestFound(ActionOf(tg).vac)
           /\ v.id = ActionOf(tg).vac
           /\ v.status = "pending"
           /\ ApprovedDays(v.user, YearOf(v.start), nextVid - 1) + v.days
                 > QuotaOf(v.team))
          => /\ \E w \in vacations' : w.id = v.id /\ w.status = "approved"
             /\ (ApprovedDays(v.user, YearOf(v.start), nextVid - 1))'
                   > QuotaOf(v.team)]_vars

\* C18 witness: an approval has just been given, and two approved requests of
\* one user start in the same year, each within the quota, together over it
OverQuotaWitness ==
    /\ last.op = "skip" /\ last.result = "approved"
    /\ \E v \in vacations, w \in vacations :
          /\ v.id < w.id /\ v.user = w.user /\ w.id = last.reply.a
          /\ v.status = "approved" /\ w.status = "approved"
          /\ YearOf(v.start) = YearOf(w.start)
          /\ v.days <= QuotaOf(v.team) /\ w.days <= QuotaOf(w.team)
          /\ ApprovedDays(v.user, YearOf(v.start), nextVid - 1) > QuotaOf(v.team)

Years == {YearOf(d) : d \in Dates}

\* the days request v adds to the sum of user uid in the year
Counted(v, uid, year) ==
    IF v.user = uid /\ v.status = "approved" /\ YearOf(v.start) = year
    THEN v.days ELSE 0

\* C19: in every state user_year_used_days(user, year) is the sum of the days
\* of exactly the requests of the user that are approved and start in the
\* year, and a decision on a request, whatever its status was, changes the
\* sum by the days of that one request only: counted once if it is approved
\* now, not counted if it is not
UsedDaysExact ==
    /\ [](\A u \in users, year \in Years :
            user_year_used_days(u.id, year) = ApprovedDays(u.id, year, nextVid - 1))
    /\ [][\A tg \in TgIds, v \in vacations, u \in users, year \in Years :
            (/\ StepOf("skip", tg)
             /\ HasAction(tg) /\ RequestFound(ActionOf(tg).vac)
             /\ v.id = ActionOf(tg).vac)
            => \E w \in vacations' :
                  /\ w.id = v.id
                  /\ (user_year_used_days(u.id, year))'
                        = user_year_used_days(u.id, year)
                             - Counted(v, u.id, year) + Counted(w, u.id, year)]_vars

\* C19 witness: after an approval the user's sum of the year counts the
\* approved request and leaves out a rejected request of the same user that
\* starts in the same year
UsedDaysExactWitness ==
    /\ last.op = "skip" /\ last.result = "approved"
    /\ \E v \in vacations, w \in vacations :
          /\ v.id = last.reply.a /\ v.status = "approved"
          /\ w.user = v.user /\ w.status = "rejected"
          /\ YearOf(w.start) = YearOf(v.start)
          /\ user_year_used_days(v.user, YearOf(v.start)) = v.days

\* C20: an accepted submission adds exactly one request and changes no other:
\* the new request is pending, belongs to the submitter and to the team the
\* submitter is in at that moment, carries the submitted start and end with
\* end >= start, and stores end - start + 1 as its day count
AcceptedCreatesOneRequest ==
    [][\A tg \in TgIds, start \in Dates, end \in Dates :
          (Submits(tg, start, end) /\ last'.result = "accepted")
          => /\ vacations \subseteq vacations'
             /\ Cardinality(vacations' \ vacations) = 1
             /\ \A v \in vacations' \ vacations :
                   /\ v.status = "pending"
                   /\ v.user = Submitter(tg).id
                   /\ v.team = Submitter(tg).team
                   /\ v.start = start /\ v.end = end /\ v.end >= v.start
                   /\ v.days = v.end - v.start + 1
                   /\ \A w \in vacations : w.id # v.id]_vars

\* C20 witness: the request just accepted spans two days and is pending with
\* a day count of two
AcceptedCreatesOneRequestWitness ==
    /\ last.op = "apply" /\ last.result = "accepted"
    /\ \E v \in vacations :
          /\ v.id = last.reply.a /\ v.status = "pending"
          /\ v.end = v.start + 1 /\ v.days = 2
          /\ v.team = Submitter(last.by).team

\* C21: a submission rejected by any rule creates and modifies no request,
\* leaves every recorded admin action as it is, hands out no approve/reject
\* button and sends no new-request message to any admin
RejectedChangesNothing ==
    [][\A tg \in TgIds, start \in Dates, end \in Dates :
          (Submits(tg, start, end) /\ last'.result = "rejected")
          => /\ vacations' = vacations
             /\ nextVid' = nextVid
             /\ admin_actions' = admin_actions
             /\ buttons' = buttons
             /\ last'.sent = {}
             /\ settings' = settings /\ forbidden_dates' = forbidden_dates]_vars

\* C21 witness: a submission was rejected by the overlap rule while a request
\* is stored, an admin has a recorded action and the team has a resolved admin
RejectedChangesNothingWitness ==
    /\ last.op = "apply" /\ last.result = "rejected" /\ last.reply.kind = "overlap"
    /\ vacations # {} /\ admin_actions # {}
    /\ AdminRecipients(users, Submitter(last.by).team) # {}

\* C22: when a request is created the new-request message goes to exactly the
\* users that are then in the requester's team, have an admin role and have a
\* Telegram id; each of them gets the buttons of the request and nobody else
\* gets a message or a button
BroadcastToTeamAdmins ==
    [][\A tg \in TgIds :
          (StepOf("apply", tg) /\ last'.result = "accepted")
          => LET team_id == (CHOOSE u \in users' : u.tg = tg).team
                 admins == {u \in users' : /\ u.team = team_id
                                           /\ is_admin_role(u.role)
                                           /\ u.tg # NULL}
             IN  /\ {n.to : n \in last'.sent} = {u.tg : u \in admins}
                 /\ \A n \in last'.sent : n.kind = "new_request" /\ n.vac = last'.reply.a
                 /\ buttons' \ buttons = {<<u.tg, last'.reply.a>> : u \in admins}]_vars

\* C22 witness: a request of the second team was created and announced to
\* that team's admin, while the Default Team has an admin with a Telegram id
\* who got nothing and a user with an admin role has no Telegram id
BroadcastWitness ==
    /\ last.op = "apply" /\ last.result = "accepted"
    /\ \E v \in vacations : v.id = last.reply.a /\ v.team # DefaultTeamId
    /\ last.sent # {}
    /\ \E u \in users : /\ u.team = DefaultTeamId /\ is_admin_role(u.role) /\ u.tg # NULL
                        /\ u.tg \notin {n.to : n \in last.sent}
    /\ \E u \in users : is_admin_role(u.role) /\ u.tg = NULL

\* C23: every step that sends a decision message sends exactly one, to the
\* requester of the request, and it is a step that takes the request out of
\* pending; a request leaves pending once, so its requester gets at most one
\* decision message
DecisionNotifiedOnce ==
    [][\A n \in last'.sent :
          n.kind = "decision"
          => /\ Cardinality(last'.sent) = 1
             /\ \E v \in vacations :
                   /\ v.id = n.vac /\ v.status = "pending"
                   /\ n.to = RequesterTg(v.id)
                   /\ \E w \in vacations' : w.id = v.id /\ w.status = n.status]_vars

\* the team's users with an admin role and a Telegram id, after the step
TeamAdminsAfter(tg) ==
    LET team_id == (CHOOSE u \in users' : u.tg = tg).team
    IN  {u.tg : u \in {x \in users' : /\ x.team = team_id
                                      /\ is_admin_role(x.role)
                                      /\ x.tg # NULL}}

\* C24: a decision whose message to the requester cannot be delivered still
\* sets the status and the comment and deletes the admin's recorded action;
\* an accepted submission stays stored whoever cannot be reached, and when the
\* requester's own message goes through, every admin of the team that can be
\* reached gets the new-request message although others cannot
DeliveryFailureKeepsChange ==
    [][/\ \A tg \in TgIds, v \in vacations :
             (/\ unreachable' = unreachable
              /\ StepOf("skip", tg) \/ (StepOf("text", tg) /\ TextLooksUpAction(tg))
              /\ HasAction(tg) /\ ActionOf(tg).vac = v.id
              /\ RequestFound(v.id)
              /\ RequesterTg(v.id) \in unreachable)
             => /\ \E w \in vacations' :
                      /\ w.id = v.id
                      /\ w.status = (IF ActionOf(tg).action = "approve"
                                     THEN "approved" ELSE "rejected")
                      /\ w.comment = (IF last'.op = "skip" THEN "" ELSE "ok")
                /\ \A r \in admin_actions' : r.admin # tg
                /\ last'.sent = {}
       /\ \A tg \in TgIds :
             (unreachable' = unreachable /\ StepOf("apply", tg) /\ last'.result = "accepted")
             => /\ \E w \in vacations' \ vacations : w.id = last'.reply.a
                /\ tg \notin unreachable
                     => {n.to : n \in last'.sent} = TeamAdminsAfter(tg) \ unreachable]_vars

\* C24 witness: a request was created while one admin of the team could not be
\* reached, and another admin of the team got the message
DeliveryFailureWitness ==
    /\ last.op = "apply" /\ last.result = "accepted"
    /\ \E v \in vacations : v.id = last.reply.a
    /\ \E u \in users : /\ u.team = DefaultTeamId /\ is_admin_role(u.role)
                        /\ u.tg \in unreachable
    /\ last.sent # {}

\* C24 witness, decision: a request was decided while its requester could not
\* be reached; the status is set, the recorded action is gone, no message went out
UndeliveredDecisionWitness ==
    /\ last.op = "skip" /\ last.result \in {"approved", "rejected"}
    /\ last.sent = {}
    /\ ~HasAction(last.by)
    /\ \E v \in vacations : /\ v.id = last.reply.a /\ v.status = last.result
                            /\ RequesterTg(v.id) \in unreachable

\* C26: a request reaches the status cancelled (its requester cancels it while
\* it is pending)
CancelledReached == <>(\E v \in vacations : v.status = "cancelled")

\* C27 as stated: a recorded admin action stays in the table, unchanged, in
\* every step except a finalize or a new button press of its own admin
ActionKeptUntilFinalizeOrOverwrite ==
    [][\A r \in admin_actions :
          r \notin admin_actions'
          => last'.by = r.admin /\ last'.op \in {"skip", "text", "begin"}]_vars

\* C27, amended: a recorded admin action stays in the table, unchanged, in
\* every step except a finalize, a new button press or the leaving of its own
\* admin; no step of another identity removes or alters it
ActionKeptUntilOwnStep ==
    [][\A r \in admin_actions :
          r \notin admin_actions'
          => last'.by = r.admin /\ last'.op \in {"skip", "text", "begin", "delete"}]_vars

\* C27 witness: another admin has just finalized the request that an admin's
\* recorded action is about, and that action is still in the table
ActionKeptWitness ==
    /\ last.op = "skip" /\ last.result \in {"approved", "rejected"}
    /\ \E r \in admin_actions : r.admin # last.by /\ r.vac = last.reply.a

TeamIds == 1..2

ShortKeys == {"max_year_days", "max_single_days", "overlap_policy"}

HasSetting(team_id, short_key) ==
    \E r \in settings : r.key = SettingKey(short_key, team_id)

\* the admin's text is an integer saved by the wizard for short_key
SavesSetting(tg, short_key) ==
    /\ StepOf("text", tg) /\ last'.result = "setting_saved"
    /\ short_key = (IF user_data[tg].admin_wizard = "set_max_year"
                    THEN "max_year_days" ELSE "max_single_days")

\* C28: get_team_setting returns the default when the team has no row for the
\* key; after an admin's value is saved it returns that value for the admin's
\* team and that key, whatever was stored before, and what it returns for any
\* other team or any other key is what it returned before
SettingLastWriteWins ==
    [][/\ \A team \in TeamIds, key \in ShortKeys :
             ~HasSetting(team, key) => get_team_setting(team, key, "dflt") = "dflt"
       /\ \A tg \in TgIds, short_key \in ShortKeys :
             SavesSetting(tg, short_key)
             => \A team \in TeamIds, key \in ShortKeys :
                   IF team = get_user_by_tg_id(tg).team /\ key = short_key
                   THEN (get_team_setting(team, key, "dflt"))' = ToString(last'.reply.a)
                   ELSE (get_team_setting(team, key, "dflt"))'
                            = get_team_setting(team, key, "dflt")]_vars

\* C28 witness: the admin of the second team has replaced a limit that was
\* stored before, the Default Team keeps its own value of the same key, and
\* a third team has no row and reads the default
SettingWitness ==
    /\ last.op = "text" /\ last.result = "setting_saved" /\ last.reply.a = 9
    /\ get_user_by_tg_id(last.by).team = 2
    /\ \E key \in ShortKeys :
          /\ get_team_setting(2, key, "dflt") = "9"
          /\ get_team_setting(DefaultTeamId, key, "dflt") \in {"7", "14", "28"}
    /\ get_team_setting(3, "max_year_days", "dflt") = "dflt"

LimitWizards == {"set_max_year", "set_max_single"}

\* the text of admin tg is read by the wizard of one of the two limits
LimitWizardReads(tg, text) ==
    /\ StepOf("text", tg)
    /\ TextReachesAdminHandler(tg) /\ admin_text_handler(tg, text)
    /\ IsAdmin(tg) /\ ~HasAction(tg)
    /\ user_data[tg].admin_wizard \in LimitWizards

DecisionsStayInTeam ==
    [][\A v \in vacations, w \in vacations' :
          (w.id = v.id /\ (w.status # v.status \/ w.comment # v.comment))
          => \E u \in users : u.tg = last'.by /\ u.team = v.team]_vars

\* C37: a request becomes approved or rejected only in a step taken by an
\* identity that, at that moment, is a stored user with an admin role
OnlyAdminsDecide ==
    [][\A v \in vacations, w \in vacations' :
          (w.id = v.id /\ w.status # v.status /\ w.status \in {"approved", "rejected"})
          => \E u \in users : u.tg = last'.by /\ is_admin_role(u.role)]_vars

\* C38: the team stored on a request is the current team of its requesting user
RequestTeamIsUserTeam ==
    \A v \in vacations : \A u \in users : u.id = v.user => v.team = u.team

\* C33: every request references an existing user
RequestsReferenceUsers ==
    \A v \in vacations : \E u \in users : u.id = v.user

\* C40: a text message from an admin who is in the set_max_year or
\* set_max_single wizard step is handled by that step (the number is saved or a
\* number is asked for), also when the admin has a recorded action; it never
\* finalizes the recorded action and is never dropped because of it
WizardTextGoesToWizard ==
    [][\A tg \in TgIds :
          (StepOf("text", tg) /\ IsAdmin(tg) /\ user_data[tg].admin_wizard \in LimitWizards)
          => /\ last'.result \in {"setting_saved", "bad_format"}
             /\ vacations' = vacations
             /\ admin_actions' = admin_actions]_vars

\* C34: forbidding a day the team has already forbidden adds no second entry:
\* a team has at most one forbidden_dates row per day
NoDuplicateForbiddenDate ==
    \A r, q \in forbidden_dates : (r.team = q.team /\ r.date = q.date) => r = q

\* C35: a step that allows day d again for a team removes the rows of that
\* team and day and no other row: d is no longer forbidden for the team, and
\* the rows of other days and of other teams are the same as before
UnforbidRemovesOnlyThatDate ==
    [][\A tg \in TgIds :
          (StepOf("text", tg) /\ last'.result = "unforbidden")
          => \E u \in users :
                /\ u.tg = tg
                /\ ~\E r \in forbidden_dates' : r.team = u.team /\ r.date = last'.reply.a
                /\ {r \in forbidden_dates' : ~(r.team = u.team /\ r.date = last'.reply.a)}
                   = {r \in forbidden_dates : ~(r.team = u.team /\ r.date = last'.reply.a)}]_vars

\* day 1 of the range 1..2 forbidden in one step has been allowed again; day 2
\* of that range and the day of the other team are still forbidden
UnforbidRemovesOnlyThatDateWitness ==
    /\ last.op = "text" /\ last.result = "unforbidden" /\ last.reply.a = 1
    /\ \E r \in forbidden_dates :
          /\ r.team = DefaultTeamId /\ r.date = 2
          /\ ~\E q \in forbidden_dates : q.id = r.id - 1
    /\ \E r \in forbidden_dates : r.team = OtherTeamId

\* C39: a quick-range submission shows 'sent for review' to the requester only
\* when the rules accepted it and a pending request was created in that step
QuickConfirmationOnlyIfAccepted ==
    [][\A tg \in TgIds :
          (StepOf("apply_quick", tg) /\ last'.reply.kind = "sent_for_review")
          => /\ last'.result = "accepted"
             /\ \E w \in vacations' \ vacations : w.status = "pending"]_vars

\* C31: no two user records in different teams carry the same handle
OneTeamPerHandle ==
    \A u, w \in users : (u.username = w.username /\ u.username # "") => u.team = w.team

\* the placeholders that carry the handle: handle set, identity unresolved
PlaceholdersOf(username) == {u \in users : u.username = username /\ u.tg = NULL}

\* C32: a first contact by an identity whose handle matches a placeholder binds
\* the identity to the most recently created matching placeholder, which keeps
\* its role and team, and creates no record; and no step gives a record that
\* is bound to an identity another identity
FirstContactBindsPlaceholder ==
    [][/\ \A tg \in TgIds, p \in users :
             (/\ StepOf("whoami", tg) /\ handle' = handle /\ ~HasUser(tg)
              /\ p \in PlaceholdersOf(Handle(tg))
              /\ \A q \in PlaceholdersOf(Handle(tg)) : q.id <= p.id)
             => users' = (users \ {p}) \cup {[p EXCEPT !.tg = tg]}
       /\ \A u \in users, w \in users' :
             (w.id = u.id /\ u.tg # NULL) => w.tg = u.tg]_vars

\* C36: in the manual flow the member who has entered the dates and is asked
\* for the comment gets, after the comment or the skip and the confirmation,
\* the submission of the request
ManualFlowSubmits ==
    (apply_state[Requester] = "APPLY_COMMENT" /\ nextVid <= MaxVac)
        ~> (last.op = "apply" /\ last.by = Requester)
====
